---- MODULE Spec2Model ----
(***************************************************************************)
(* Model of qsolog: the in-memory QsoStore (src/src/core/store.rs), its    *)
(* record/patch/op types (src/src/qso.rs, src/src/op.rs) and the           *)
(* incremental Projector (src/src/engine/projector.rs) driven by the       *)
(* counting engine of src/tests/engine_incremental.rs.                     *)
(*                                                                         *)
(* The store's methods are written as operators over a store value `s`     *)
(* (a record holding the fields of struct QsoStore) that return the store  *)
(* after the call together with the call's result; the actions apply them  *)
(* to the live store held in the variables.                                *)
(***************************************************************************)
EXTENDS Integers, Sequences, FiniteSets, TLC

(***************************************************************************)
(* Bounds of the exploration.                                              *)
(***************************************************************************)
\* number of API calls made on the live store in one behaviour
MaxOps == 4
\* number of insert calls made on the live store in one behaviour
MaxQsos == 3

\* the number of commands the clients of one runtime send
MaxCmds == 2
\* the number of sink calls of one runtime that fail or answer a stale seq
MaxFaults == 1
\* the number of snapshots written to one database
MaxSnapshots == 1
\* the number of store calls made next to one database
MaxPersistOps == 3
\* the number of client calls made after the writer task returned from Shutdown
MaxLate == 1

(***************************************************************************)
(* Program constants.                                                      *)
(***************************************************************************)
\* u64::MAX of QsoId / OpSeq.  TLC integers are 32 bits wide, so the 64-bit
\* counters are modelled at width 31: every value the model uses is either
\* small or this maximum, and the arithmetic at the maximum (saturating_add,
\* += 1) is the code's.
U64_MAX == 2147483647

(***************************************************************************)
(* Option<T>: None is the empty sequence, Some(v) is <<v>>.                *)
(***************************************************************************)
None == << >>

Some(v) == << v >>

IsSome(o) == Len(o) = 1

\* Option::map(|_| v)
OptMapTo(o, v) == IF IsSome(o) THEN Some(v) ELSE None

\* `if let Some(v) = o { field = v }`
OptOr(o, cur) == IF IsSome(o) THEN o[1] ELSE cur

(***************************************************************************)
(* HashMap<K, V>: a function whose DOMAIN is the set of keys present.      *)
(***************************************************************************)
EmptyMap == [k \in {} |-> {}]

MapPut(m, k, v) == [x \in (DOMAIN m) \cup {k} |-> IF x = k THEN v ELSE m[x]]

MapDel(m, k) == [x \in (DOMAIN m) \ {k} |-> m[x]]

\* m.get(k).unwrap_or(d)
MapGet(m, k, d) == IF k \in DOMAIN m THEN m[k] ELSE d

(***************************************************************************)
(* Sequence helpers (Vec<T>).                                              *)
(***************************************************************************)
\* Vec::retain(|v| *v != x)
Retain(seq, x) == SelectSeq(seq, LAMBDA v : v # x)

\* Vec::insert(at, x) with a 0-based index `at`
VecInsert(seq, at, x) == SubSeq(seq, 1, at) \o << x >> \o SubSeq(seq, at + 1, Len(seq))

\* Vec::pop / last
Last(seq) == seq[Len(seq)]

Front(seq) == SubSeq(seq, 1, Len(seq) - 1)

IsPrefix(a, b) == Len(a) <= Len(b) /\ SubSeq(b, 1, Len(a)) = a

SeqToSet(seq) == {seq[i] : i \in 1..Len(seq)}

NoDup(seq) == \A i, j \in 1..Len(seq) : i # j => seq[i] # seq[j]

(***************************************************************************)
(* QsoRecord, QsoDraft, QsoPatch (src/src/qso.rs).                         *)
(***************************************************************************)
QsoFlags(is_void, dupe_override) == [is_void |-> is_void, dupe_override |-> dupe_override]

\* the draft every test builds its drafts from (QsoFlags::default() flags)
BaseDraft ==
    [contest_instance_id |-> 1, callsign_raw |-> "A1AA", callsign_norm |-> "A1AA",
     band |-> "B20m", mode |-> "CW", freq_hz |-> 14010000, ts_ms |-> 1,
     radio_id |-> 1, operator_id |-> 1, exchange |-> << >>,
     flags |-> QsoFlags(FALSE, FALSE)]

\* QsoPatch::default(): every field absent
EmptyPatch ==
    [contest_instance_id |-> None, callsign_raw |-> None, callsign_norm |-> None,
     band |-> None, mode |-> None, freq_hz |-> None, ts_ms |-> None,
     radio_id |-> None, operator_id |-> None, exchange |-> None,
     is_void |-> None, dupe_override |-> None]

\* the record `insert` builds from a draft
RecordOf(id, draft) ==
    [id |-> id,
     contest_instance_id |-> draft.contest_instance_id,
     callsign_raw |-> draft.callsign_raw,
     callsign_norm |-> draft.callsign_norm,
     band |-> draft.band,
     mode |-> draft.mode,
     freq_hz |-> draft.freq_hz,
     ts_ms |-> draft.ts_ms,
     radio_id |-> draft.radio_id,
     operator_id |-> draft.operator_id,
     exchange |-> draft.exchange,
     flags |-> draft.flags]

\* capture_inverse_for keeping the patch's own contest_instance_id
capture_inverse_for_new_contest(p, rec) ==
    [contest_instance_id |-> p.contest_instance_id,
     callsign_raw |-> OptMapTo(p.callsign_raw, rec.callsign_raw),
     callsign_norm |-> OptMapTo(p.callsign_norm, rec.callsign_norm),
     band |-> OptMapTo(p.band, rec.band),
     mode |-> OptMapTo(p.mode, rec.mode),
     freq_hz |-> OptMapTo(p.freq_hz, rec.freq_hz),
     ts_ms |-> OptMapTo(p.ts_ms, rec.ts_ms),
     radio_id |-> OptMapTo(p.radio_id, rec.radio_id),
     operator_id |-> OptMapTo(p.operator_id, rec.operator_id),
     exchange |-> OptMapTo(p.exchange, rec.exchange),
     is_void |-> OptMapTo(p.is_void, rec.flags.is_void),
     dupe_override |-> OptMapTo(p.dupe_override, rec.flags.dupe_override)]

\* QsoPatch::capture_inverse_for
capture_inverse_for(p, rec) ==
    [contest_instance_id |-> OptMapTo(p.contest_instance_id, rec.contest_instance_id),
     callsign_raw |-> OptMapTo(p.callsign_raw, rec.callsign_raw),
     callsign_norm |-> OptMapTo(p.callsign_norm, rec.callsign_norm),
     band |-> OptMapTo(p.band, rec.band),
     mode |-> OptMapTo(p.mode, rec.mode),
     freq_hz |-> OptMapTo(p.freq_hz, rec.freq_hz),
     ts_ms |-> OptMapTo(p.ts_ms, rec.ts_ms),
     radio_id |-> OptMapTo(p.radio_id, rec.radio_id),
     operator_id |-> OptMapTo(p.operator_id, rec.operator_id),
     exchange |-> OptMapTo(p.exchange, rec.exchange),
     is_void |-> OptMapTo(p.is_void, rec.flags.is_void),
     dupe_override |-> OptMapTo(p.dupe_override, rec.flags.dupe_override)]

\* QsoPatch::apply_to
apply_to(p, rec) ==
    [id |-> rec.id,
     contest_instance_id |-> OptOr(p.contest_instance_id, rec.contest_instance_id),
     callsign_raw |-> OptOr(p.callsign_raw, rec.callsign_raw),
     callsign_norm |-> OptOr(p.callsign_norm, rec.callsign_norm),
     band |-> OptOr(p.band, rec.band),
     mode |-> OptOr(p.mode, rec.mode),
     freq_hz |-> OptOr(p.freq_hz, rec.freq_hz),
     ts_ms |-> OptOr(p.ts_ms, rec.ts_ms),
     radio_id |-> OptOr(p.radio_id, rec.radio_id),
     operator_id |-> OptOr(p.operator_id, rec.operator_id),
     exchange |-> OptOr(p.exchange, rec.exchange),
     flags |-> QsoFlags(OptOr(p.is_void, rec.flags.is_void),
                        OptOr(p.dupe_override, rec.flags.dupe_override))]

(***************************************************************************)
(* Op and StoredOp (src/src/op.rs).                                        *)
(***************************************************************************)
OpInsert(qso) == [kind |-> "Insert", qso |-> qso]

OpPatch(id, patch, prev) == [kind |-> "Patch", id |-> id, patch |-> patch, prev |-> prev]

OpVoid(id, prev_is_void) == [kind |-> "Void", id |-> id, prev_is_void |-> prev_is_void]

StoredOp(seq, ts, op) == [seq |-> seq, ts_ms |-> ts, op |-> op]

\* the id an op is about
OpId(op) == IF op.kind = "Insert" THEN op.qso.id ELSE op.id

(***************************************************************************)
(* State.                                                                  *)
(***************************************************************************)
VARIABLES
    store,        \* the live QsoStore (fields of struct QsoStore)
    debug_build,  \* build profile: TRUE = overflow checks and debug assertions on
    panicked,     \* TRUE once a call on the live store has panicked
    hist,         \* the calls made on the live store so far, with their results
    projector,    \* the Projector fed with the ops the live store emits
    rt_phase,     \* position of the undo-all / redo-all round trip
    rt_target,    \* snapshot_records(store) taken before the first undo
    config,       \* the RuntimeConfig and sink choice given to spawn_qsolog
    cmd_q,        \* cmd channel: commands sent by clients, not yet received
    writer,       \* the writer task: position, ops_since_snapshot
    persist_q,    \* bounded channel of PersistMsg from the writer to the worker
    worker,       \* the persistence worker task: position, buf, last_durable
    durable_q,    \* unbounded channel of durability results, worker to writer
    sink,         \* the OpSink: the append_ops calls it got, journal, snapshots
    log           \* what the runtime did so far, in order

runtime_vars == << config, cmd_q, writer, persist_q, worker, durable_q, sink, log >>

(***************************************************************************)
(* Results of a store call: Result<(StoredOp, Op), StoreError>, or a panic *)
(* (arithmetic overflow or a failed debug assertion in a checked build).   *)
(* `s` is the store as the call leaves it.                                 *)
(***************************************************************************)
Ok(s, stored, inverse) == [s |-> s, tag |-> "Ok", stored |-> stored, inverse |-> inverse]

Err(s, e) == [s |-> s, tag |-> "Err", err |-> e]

Panic(s) == [s |-> s, tag |-> "Panic"]

MissingQso(id) == << "MissingQso", id >>

AlreadyExists(id) == << "AlreadyExists", id >>

NothingToUndo == << "NothingToUndo" >>

NothingToRedo == << "NothingToRedo" >>

(***************************************************************************)
(* u64 arithmetic.                                                         *)
(***************************************************************************)
saturating_add(x, n) == IF x >= U64_MAX - n THEN U64_MAX ELSE x + n

saturating_sub(x, n) == IF x <= n THEN 0 ELSE x - n

\* `x += 1` in a build without overflow checks
wrapping_add_one(x) == IF x = U64_MAX THEN 0 ELSE x + 1

\* `x += 1` panics exactly when x is u64::MAX and the build checks overflow
AddOnePanics(x) == x = U64_MAX /\ debug_build

Max(a, b) == IF a >= b THEN a ELSE b

(***************************************************************************)
(* QsoStore (src/src/core/store.rs).                                       *)
(***************************************************************************)
\* QsoStore::new
new ==
    [records |-> EmptyMap, order |-> << >>, pos |-> EmptyMap,
     by_call |-> EmptyMap, by_contest |-> EmptyMap,
     undo |-> << >>, redo |-> << >>, pending_ops |-> << >>,
     next_op_seq |-> 1, next_qso_id |-> 1]

\* take_next_op_seq; the caller checks AddOnePanics(s.next_op_seq) first
take_next_op_seq(s) ==
    [s |-> [s EXCEPT !.next_op_seq = wrapping_add_one(s.next_op_seq)],
     seq |-> s.next_op_seq]

\* bump_next_seq_from
bump_next_seq_from(s, seq) ==
    [s EXCEPT !.next_op_seq = Max(s.next_op_seq, saturating_add(seq, 1))]

\* one index's `entry(key).or_default().push(id)`
IndexPush(index, key, id) == MapPut(index, key, Append(MapGet(index, key, << >>), id))

\* insert_indices
insert_indices(s, rec) ==
    [s EXCEPT !.by_call = IndexPush(s.by_call, rec.callsign_norm, rec.id),
              !.by_contest = IndexPush(s.by_contest, rec.contest_instance_id, rec.id)]

\* one index's `retain(|v| *v != id)` followed by dropping the empty bucket
IndexRemove(index, key, id) ==
    IF key \in DOMAIN index
    THEN LET ids == Retain(index[key], id)
         IN IF ids = << >> THEN MapDel(index, key) ELSE MapPut(index, key, ids)
    ELSE index

\* remove_indices
remove_indices(s, rec) ==
    [s EXCEPT !.by_call = IndexRemove(s.by_call, rec.callsign_norm, rec.id),
              !.by_contest = IndexRemove(s.by_contest, rec.contest_instance_id, rec.id)]

\* `*pos.get(id).unwrap_or(&usize::MAX)`
PosKey(pos, id) == MapGet(pos, id, U64_MAX)

\* slice::binary_search_by_key over index[lo+1 .. hi] (0-based half-open lo..hi):
\* the index of a match, or the insertion point if there is none
RECURSIVE binary_search_by_key(_, _, _, _, _)
binary_search_by_key(index, pos, target, lo, hi) ==
    IF lo >= hi THEN lo
    ELSE LET mid == lo + ((hi - lo) \div 2)
             key == PosKey(pos, index[mid + 1])
         IN IF key = target THEN mid
            ELSE IF key < target
                 THEN binary_search_by_key(index, pos, target, mid + 1, hi)
                 ELSE binary_search_by_key(index, pos, target, lo, mid)

\* insert_id_ordered as a plain push at the end of the bucket
insert_id_ordered_push(index, id, pos) == Append(index, id)

\* insert_id_ordered
insert_id_ordered(index, id, pos) ==
    LET target == PosKey(pos, id)
        at == binary_search_by_key(index, pos, target, 0, Len(index))
    IN VecInsert(index, at, id)

\* the body shared by update_call_index and update_contest_index
IndexMove(index, id, old_key, new_key, pos) ==
    LET removed == IndexRemove(index, old_key, id)
    IN MapPut(removed, new_key, insert_id_ordered(MapGet(removed, new_key, << >>), id, pos))

\* update_call_index
update_call_index(s, id, old_call, new_call) ==
    [s EXCEPT !.by_call = IndexMove(s.by_call, id, old_call, new_call, s.pos)]

\* update_contest_index
update_contest_index(s, id, old_contest, new_contest) ==
    [s EXCEPT !.by_contest = IndexMove(s.by_contest, id, old_contest, new_contest, s.pos)]

\* `order.iter().filter(|id| records.get(id).is_some_and(|r| r.<field> == key))`
FilterOrder(s, field, key) ==
    SelectSeq(s.order, LAMBDA id : id \in DOMAIN s.records /\ s.records[id][field] = key)

\* debug_assert_indices_consistent: TRUE iff no debug_assert_eq! fails
debug_assert_indices_consistent(s) ==
    /\ \A call \in DOMAIN s.by_call : FilterOrder(s, "callsign_norm", call) = s.by_call[call]
    /\ \A contest \in DOMAIN s.by_contest :
           FilterOrder(s, "contest_instance_id", contest) = s.by_contest[contest]

\* `self.order.push(id)` written as an insert at the front
order_push_front(order, id) == << id >> \o order

\* `self.order.push(id)`
order_push(order, id) == Append(order, id)

\* apply_insert_with_seq without its AlreadyExists guard
apply_insert_with_seq_unguarded(s, qso, seq, now) ==
    LET id == qso.id
        s1 == [s EXCEPT !.next_qso_id = Max(s.next_qso_id, saturating_add(id, 1))]
        s2 == insert_indices(s1, qso)
        s3 == [s2 EXCEPT !.pos = MapPut(s2.pos, id, Len(s2.order)),
                         !.order = order_push(s2.order, id),
                         !.records = MapPut(s2.records, id, qso)]
        s4 == bump_next_seq_from(s3, seq)
    IN Ok(s4, StoredOp(seq, now, OpInsert(qso)), OpVoid(id, FALSE))

\* apply_insert_with_seq
apply_insert_with_seq(s, qso, seq, now) ==
    IF qso.id \in DOMAIN s.records
    THEN Err(s, AlreadyExists(qso.id))
    ELSE LET id == qso.id
             s1 == [s EXCEPT !.next_qso_id = Max(s.next_qso_id, saturating_add(id, 1))]
             s2 == insert_indices(s1, qso)
             s3 == [s2 EXCEPT !.pos = MapPut(s2.pos, id, Len(s2.order)),
                              !.order = order_push(s2.order, id),
                              !.records = MapPut(s2.records, id, qso)]
             s4 == bump_next_seq_from(s3, seq)
         IN Ok(s4, StoredOp(seq, now, OpInsert(qso)), OpVoid(id, FALSE))

\* apply_insert
apply_insert(s, qso, now) ==
    IF AddOnePanics(s.next_op_seq)
    THEN Panic(s)
    ELSE LET t == take_next_op_seq(s)
         IN apply_insert_with_seq(t.s, qso, t.seq, now)

\* the index repair and the debug assertion shared by apply_patch_with_seq
\* and rollback_patch: the store with record `id` replaced by `rec`
RepairIndices(s, id, old_rec, rec) ==
    LET s1 == [s EXCEPT !.records = MapPut(s.records, id, rec)]
        s2 == IF old_rec.callsign_norm # rec.callsign_norm
              THEN update_call_index(s1, id, old_rec.callsign_norm, rec.callsign_norm)
              ELSE s1
    IN IF old_rec.contest_instance_id # rec.contest_instance_id
       THEN update_contest_index(s2, id, old_rec.contest_instance_id, rec.contest_instance_id)
       ELSE s2

\* apply_patch_with_seq handing back the forward patch as its inverse
apply_patch_with_seq_forward(s, id, patch, seq, now) ==
    IF id \notin DOMAIN s.records
    THEN Err(s, MissingQso(id))
    ELSE LET old_rec == s.records[id]
             prev == capture_inverse_for(patch, old_rec)
             rec == apply_to(patch, old_rec)
             s1 == RepairIndices(s, id, old_rec, rec)
         IN IF debug_build /\ ~debug_assert_indices_consistent(s1)
            THEN Panic(s1)
            ELSE Ok(bump_next_seq_from(s1, seq),
                    StoredOp(seq, now, OpPatch(id, patch, prev)),
                    OpPatch(id, patch, prev))

\* apply_patch_with_seq
apply_patch_with_seq(s, id, patch, seq, now) ==
    IF id \notin DOMAIN s.records
    THEN Err(s, MissingQso(id))
    ELSE LET old_rec == s.records[id]
             prev == capture_inverse_for(patch, old_rec)
             rec == apply_to(patch, old_rec)
             s1 == RepairIndices(s, id, old_rec, rec)
         IN IF debug_build /\ ~debug_assert_indices_consistent(s1)
            THEN Panic(s1)
            ELSE Ok(bump_next_seq_from(s1, seq),
                    StoredOp(seq, now, OpPatch(id, patch, prev)),
                    OpPatch(id, prev, patch))

\* apply_patch
apply_patch(s, id, patch, now) ==
    IF AddOnePanics(s.next_op_seq)
    THEN Panic(s)
    ELSE LET t == take_next_op_seq(s)
         IN apply_patch_with_seq(t.s, id, patch, t.seq, now)

\* apply_void_with_seq
apply_void_with_seq(s, id, prev_is_void, seq, now) ==
    IF id \notin DOMAIN s.records
    THEN Err(s, MissingQso(id))
    ELSE LET new_is_void == ~prev_is_void
             s1 == [s EXCEPT !.records[id].flags.is_void = new_is_void]
         IN Ok(bump_next_seq_from(s1, seq),
               StoredOp(seq, now, OpVoid(id, prev_is_void)),
               OpVoid(id, new_is_void))

\* apply_void
apply_void(s, id, prev_is_void, now) ==
    IF AddOnePanics(s.next_op_seq)
    THEN Panic(s)
    ELSE LET t == take_next_op_seq(s)
         IN apply_void_with_seq(t.s, id, prev_is_void, t.seq, now)

\* apply_op
apply_op(s, op, now) ==
    CASE op.kind = "Insert" -> apply_insert(s, op.qso, now)
      [] op.kind = "Patch" -> apply_patch(s, op.id, op.patch, now)
      [] op.kind = "Void" -> apply_void(s, op.id, op.prev_is_void, now)

\* the tail of insert, patch and void: push the inverse on the undo stack,
\* clear the redo stack, buffer the stored op
Commit(r) ==
    IF r.tag # "Ok" THEN r
    ELSE [r EXCEPT !.s = [r.s EXCEPT !.undo = Append(r.s.undo, r.inverse),
                                     !.redo = << >>,
                                     !.pending_ops = Append(r.s.pending_ops, r.stored)]]

\* QsoStore::insert; an Ok result carries the new id in `stored.op.qso.id`
insert(s, draft, now) ==
    IF AddOnePanics(s.next_qso_id)
    THEN Panic(s)
    ELSE LET id == s.next_qso_id
             s1 == [s EXCEPT !.next_qso_id = wrapping_add_one(s.next_qso_id)]
         IN Commit(apply_insert(s1, RecordOf(id, draft), now))

\* QsoStore::patch
patch(s, id, p, now) == Commit(apply_patch(s, id, p, now))

\* QsoStore::void
void(s, id, now) ==
    IF id \notin DOMAIN s.records
    THEN Err(s, MissingQso(id))
    ELSE Commit(apply_void(s, id, s.records[id].flags.is_void, now))

\* undo taking its op seq before it looks at the undo stack
undo_seq_first(s, now) ==
    IF s.undo = << >>
    THEN Err(take_next_op_seq(s).s, NothingToUndo)
    ELSE LET r == apply_op([s EXCEPT !.undo = Front(s.undo)], Last(s.undo), now)
         IN IF r.tag # "Ok" THEN r
            ELSE [r EXCEPT !.s = [r.s EXCEPT !.redo = Append(r.s.redo, r.inverse),
                                             !.pending_ops = Append(r.s.pending_ops, r.stored)]]

\* QsoStore::undo
undo(s, now) ==
    IF s.undo = << >>
    THEN Err(s, NothingToUndo)
    ELSE LET r == apply_op([s EXCEPT !.undo = Front(s.undo)], Last(s.undo), now)
         IN IF r.tag # "Ok" THEN r
            ELSE [r EXCEPT !.s = [r.s EXCEPT !.redo = Append(r.s.redo, r.inverse),
                                             !.pending_ops = Append(r.s.pending_ops, r.stored)]]

\* QsoStore::redo
redo(s, now) ==
    IF s.redo = << >>
    THEN Err(s, NothingToRedo)
    ELSE LET r == apply_op([s EXCEPT !.redo = Front(s.redo)], Last(s.redo), now)
         IN IF r.tag # "Ok" THEN r
            ELSE [r EXCEPT !.s = [r.s EXCEPT !.undo = Append(r.s.undo, r.inverse),
                                             !.pending_ops = Append(r.s.pending_ops, r.stored)]]

\* QsoStore::apply_replayed_op
apply_replayed_op(s, stored, now) ==
    LET op == stored.op
        r == CASE op.kind = "Insert" -> apply_insert_with_seq(s, op.qso, stored.seq, now)
               [] op.kind = "Patch" -> apply_patch_with_seq(s, op.id, op.patch, stored.seq, now)
               [] op.kind = "Void" ->
                      apply_void_with_seq(s, op.id, op.prev_is_void, stored.seq, now)
    IN IF r.tag # "Ok" THEN r
       ELSE [r EXCEPT !.s = [r.s EXCEPT !.undo = << >>, !.redo = << >>]]

\* `ids.iter().filter_map(|id| records.get(id))`
RecordsOf(s, ids) ==
    LET present == SelectSeq(ids, LAMBDA id : id \in DOMAIN s.records)
    IN [i \in 1..Len(present) |-> s.records[present[i]]]

\* export_snapshot storing latest_op_seq() as next_op_seq
export_snapshot_latest_seq(s) ==
    [next_qso_id |-> s.next_qso_id,
     next_op_seq |-> saturating_sub(s.next_op_seq, 1),
     order |-> s.order,
     records |-> RecordsOf(s, s.order)]

\* QsoStore::export_snapshot (StoreSnapshotV1)
export_snapshot(s) ==
    [next_qso_id |-> s.next_qso_id,
     next_op_seq |-> s.next_op_seq,
     order |-> s.order,
     records |-> RecordsOf(s, s.order)]

\* the loop of from_snapshot over snapshot.records
RECURSIVE LoadRecords(_, _)
LoadRecords(s, recs) ==
    IF recs = << >> THEN s
    ELSE LET rec == Head(recs)
             s1 == insert_indices(s, rec)
         IN LoadRecords([s1 EXCEPT !.records = MapPut(s1.records, rec.id, rec)], Tail(recs))

\* QsoStore::from_snapshot
from_snapshot(snapshot) ==
    LET s0 == [new EXCEPT !.next_qso_id = snapshot.next_qso_id,
                          !.next_op_seq = snapshot.next_op_seq,
                          !.order = snapshot.order,
                          !.pos = [id \in SeqToSet(snapshot.order) |->
                                      (CHOOSE i \in 1..Len(snapshot.order) :
                                          /\ snapshot.order[i] = id
                                          /\ \A j \in (i + 1)..Len(snapshot.order) :
                                                 snapshot.order[j] # id) - 1]]
    IN LoadRecords(s0, snapshot.records)

(***************************************************************************)
(* Read operations.                                                        *)
(***************************************************************************)
\* QsoStore::get
get(s, id) == IF id \in DOMAIN s.records THEN Some(s.records[id]) ELSE None

\* QsoStore::recent
recent(s, n) ==
    LET len == Len(s.order)
        start == saturating_sub(len, n)
    IN RecordsOf(s, SubSeq(s.order, start + 1, len))

\* QsoStore::by_call
by_call(s, call_norm) == RecordsOf(s, MapGet(s.by_call, call_norm, << >>))

\* QsoStore::ordered_ids
ordered_ids(s) == s.order

\* QsoStore::latest_op_seq
latest_op_seq(s) == saturating_sub(s.next_op_seq, 1)

(***************************************************************************)
(* The counting engine of src/tests/engine_incremental.rs (ToyEngine).     *)
(***************************************************************************)
\* `callsign_norm.chars().next().unwrap_or('_')` for the callsigns of the model
FirstChar(call) ==
    CASE call = "A1AA" -> "A"
      [] call = "A2BB" -> "A"
      [] call = "C1CC" -> "C"
      [] call = "" -> "_"

\* DepKey::Dupe(DupeKey { call, band, mode })
DepDupe(call, band, mode) == [tag |-> "Dupe", call |-> call, band |-> band, mode |-> mode]

\* DepKey::Mult(MultKey { key }) with key = format!("{:?}:{mult_prefix}", band)
DepMult(band, prefix) == [tag |-> "Mult", key |-> << band, prefix >>]

\* ToyEngine::new_state
new_state == [dupe_counts |-> EmptyMap, mult_counts |-> EmptyMap]

\* ToyEngine::apply: the state after the call and the EngineApplied it returns
engine_apply(state, qso) ==
    LET dupe_key == DepDupe(qso.callsign_norm, qso.band, qso.mode)
        mult_bucket == << qso.band, FirstChar(qso.callsign_norm) >>
        prev_dupe_count == MapGet(state.dupe_counts, dupe_key, 0)
        prev_mult_count == MapGet(state.mult_counts, mult_bucket, 0)
    IN [state |-> [dupe_counts |-> MapPut(state.dupe_counts, dupe_key, prev_dupe_count + 1),
                   mult_counts |-> MapPut(state.mult_counts, mult_bucket, prev_mult_count + 1)],
        applied |-> [eval |-> [points |-> IF prev_dupe_count > 0 THEN 0 ELSE 1,
                               is_dupe |-> prev_dupe_count > 0,
                               is_new_mult |-> prev_mult_count = 0],
                     deps |-> {dupe_key, DepMult(qso.band, FirstChar(qso.callsign_norm))}]]

\* one counter's `*v = v.saturating_sub(1); if *v == 0 { remove }`
CountDown(counts, k) ==
    IF k \notin DOMAIN counts THEN counts
    ELSE IF saturating_sub(counts[k], 1) = 0 THEN MapDel(counts, k)
         ELSE MapPut(counts, k, saturating_sub(counts[k], 1))

\* ToyEngine::retract: the loop over applied.deps (the keys are distinct, so
\* the iteration order of the HashSet does not matter)
RECURSIVE engine_retract(_, _, _)
engine_retract(state, qso, deps) ==
    IF deps = {} THEN state
    ELSE LET dep == CHOOSE d \in deps : TRUE
             st == IF dep.tag = "Dupe"
                   THEN [state EXCEPT !.dupe_counts = CountDown(state.dupe_counts, dep)]
                   ELSE IF dep.tag = "Mult"
                        THEN [state EXCEPT !.mult_counts = CountDown(state.mult_counts, dep.key)]
                        ELSE state
         IN engine_retract(st, qso, deps \ {dep})

\* ToyEngine::diff_invalidation: the set of keys in keys_changed
diff_invalidation(old, new_applied) ==
    ((old.deps \ new_applied.deps) \cup (new_applied.deps \ old.deps))
        \cup (IF old.eval # new_applied.eval THEN old.deps \cup new_applied.deps ELSE {})

(***************************************************************************)
(* Projector (src/src/engine/projector.rs).                                *)
(***************************************************************************)
\* Projector::new
projector_new == [state |-> new_state, applied |-> EmptyMap, dep_index |-> EmptyMap]

\* add_dep_links
RECURSIVE add_dep_links(_, _, _)
add_dep_links(dep_index, id, deps) ==
    IF deps = {} THEN dep_index
    ELSE LET dep == CHOOSE d \in deps : TRUE
         IN add_dep_links(MapPut(dep_index, dep, MapGet(dep_index, dep, {}) \cup {id}),
                          id, deps \ {dep})

\* remove_dep_links that leaves every link in place
remove_dep_links_keep(dep_index, id, deps) == dep_index

\* remove_dep_links
RECURSIVE remove_dep_links(_, _, _)
remove_dep_links(dep_index, id, deps) ==
    IF deps = {} THEN dep_index
    ELSE LET dep == CHOOSE d \in deps : TRUE
             di == IF dep \notin DOMAIN dep_index THEN dep_index
                   ELSE IF dep_index[dep] \ {id} = {} THEN MapDel(dep_index, dep)
                        ELSE MapPut(dep_index, dep, dep_index[dep] \ {id})
         IN remove_dep_links(di, id, deps \ {dep})

\* a dep_index lookup that finds no dependent id
Linked_none(dep_index, keys) == {}

\* the ids linked to any of `keys` in dep_index
Linked(dep_index, keys) == UNION {dep_index[k] : k \in keys \cap DOMAIN dep_index}

\* recompute_impacted, first loop: retract every impacted id that has a
\* cached entry, in `order`.  acc = [p, old, err]: the projector so far, the
\* old_applied_subset and the error that ended the loop, if any
RECURSIVE RetractPass(_, _, _, _, _, _)
RetractPass(acc, s, ids, impacted, changed_id, old_record_for_changed) ==
    IF ids = << >> \/ IsSome(acc.err) THEN acc
    ELSE LET id == Head(ids)
             p == acc.p
         IN IF id \notin impacted \/ id \notin DOMAIN p.applied
            THEN RetractPass(acc, s, Tail(ids), impacted, changed_id, old_record_for_changed)
            ELSE LET old_applied == p.applied[id]
                     p1 == [p EXCEPT !.applied = MapDel(p.applied, id)]
                     rec_for_retract ==
                         IF id = changed_id /\ IsSome(old_record_for_changed)
                         THEN old_record_for_changed
                         ELSE get(s, id)
                 IN IF ~IsSome(rec_for_retract)
                    THEN [acc EXCEPT !.p = p1, !.err = Some(MissingQso(id))]
                    ELSE RetractPass(
                             [p |-> [p1 EXCEPT
                                        !.state = engine_retract(p.state, rec_for_retract[1],
                                                                 old_applied.deps),
                                        !.dep_index = remove_dep_links(p.dep_index, id,
                                                                       old_applied.deps)],
                              old |-> MapPut(acc.old, id, old_applied),
                              err |-> None],
                             s, Tail(ids), impacted, changed_id, old_record_for_changed)

\* the second loop of recompute_impacted without its `continue` on a void
\* record
RECURSIVE ApplyPass_void_too(_, _, _, _)
ApplyPass_void_too(acc, s, ids, impacted) ==
    IF ids = << >> \/ IsSome(acc.err) THEN acc
    ELSE LET id == Head(ids)
             p == acc.p
         IN IF id \notin impacted
            THEN ApplyPass_void_too(acc, s, Tail(ids), impacted)
            ELSE IF ~IsSome(get(s, id))
                 THEN [acc EXCEPT !.err = Some(MissingQso(id))]
                 ELSE LET a == engine_apply(p.state, get(s, id)[1])
                      IN ApplyPass_void_too(
                             [p |-> [state |-> a.state,
                                     applied |-> MapPut(p.applied, id, a.applied),
                                     dep_index |-> add_dep_links(p.dep_index, id,
                                                                 a.applied.deps)],
                              new |-> MapPut(acc.new, id, a.applied),
                              err |-> None],
                             s, Tail(ids), impacted)

\* recompute_impacted, second loop: apply every impacted id whose record is
\* not void, in `order`.  acc = [p, new, err]
RECURSIVE ApplyPass(_, _, _, _)
ApplyPass(acc, s, ids, impacted) ==
    IF ids = << >> \/ IsSome(acc.err) THEN acc
    ELSE LET id == Head(ids)
             p == acc.p
         IN IF id \notin impacted
            THEN ApplyPass(acc, s, Tail(ids), impacted)
            ELSE IF ~IsSome(get(s, id))
                 THEN [acc EXCEPT !.err = Some(MissingQso(id))]
                 ELSE IF get(s, id)[1].flags.is_void
                      THEN ApplyPass(acc, s, Tail(ids), impacted)
                      ELSE LET a == engine_apply(p.state, get(s, id)[1])
                           IN ApplyPass(
                                  [p |-> [state |-> a.state,
                                          applied |-> MapPut(p.applied, id, a.applied),
                                          dep_index |-> add_dep_links(p.dep_index, id,
                                                                      a.applied.deps)],
                                   new |-> MapPut(acc.new, id, a.applied),
                                   err |-> None],
                                  s, Tail(ids), impacted)

\* recompute_impacted, third loop: the keys one impacted id contributes
ChangedKeysOf(id, old, new_subset) ==
    IF id \in DOMAIN old /\ id \in DOMAIN new_subset
    THEN IF old[id] # new_subset[id] THEN diff_invalidation(old[id], new_subset[id]) ELSE {}
    ELSE IF id \in DOMAIN old THEN old[id].deps
         ELSE IF id \in DOMAIN new_subset THEN new_subset[id].deps
              ELSE {}

\* recompute_impacted: [p, changed_keys, err]
recompute_impacted(p, s, impacted, changed_id, old_record_for_changed) ==
    LET r1 == RetractPass([p |-> p, old |-> EmptyMap, err |-> None], s, s.order, impacted,
                          changed_id, old_record_for_changed)
        r2 == ApplyPass([p |-> r1.p, new |-> EmptyMap, err |-> None], s, s.order, impacted)
    IN IF IsSome(r1.err) THEN [p |-> r1.p, changed_keys |-> {}, err |-> r1.err]
       ELSE IF IsSome(r2.err) THEN [p |-> r2.p, changed_keys |-> {}, err |-> r2.err]
            ELSE [p |-> r2.p,
                  changed_keys |-> UNION {ChangedKeysOf(id, r1.old, r2.new) : id \in impacted},
                  err |-> None]

\* a loop that runs a second round whether or not the first one expanded
\* impacted
ReconcileLoop_two_rounds(p, s, impacted, changed_id, old_record_once, rounds) ==
    LET r == recompute_impacted(p, s, impacted, changed_id, old_record_once)
        grown == impacted \cup Linked(r.p.dep_index, r.changed_keys)
        r2 == recompute_impacted(r.p, s, grown, changed_id, None)
    IN IF IsSome(r.err)
       THEN [p |-> r.p, err |-> r.err, rounds |-> rounds + 1, impacted |-> impacted,
             keys |-> r.changed_keys]
       ELSE [p |-> r2.p, err |-> r2.err, rounds |-> rounds + 2, impacted |-> grown,
             keys |-> r.changed_keys \cup r2.changed_keys]

\* incremental_reconcile, the `loop`: [p, err, rounds, impacted, keys], keys
\* being every key the rounds put in changed_keys
RECURSIVE ReconcileLoop(_, _, _, _, _, _)
ReconcileLoop(p, s, impacted, changed_id, old_record_once, rounds) ==
    LET r == recompute_impacted(p, s, impacted, changed_id, old_record_once)
        grown == impacted \cup Linked(r.p.dep_index, r.changed_keys)
    IN IF IsSome(r.err) \/ grown = impacted
       THEN [p |-> r.p, err |-> r.err, rounds |-> rounds + 1, impacted |-> impacted,
             keys |-> r.changed_keys]
       ELSE LET rest == ReconcileLoop(r.p, s, grown, changed_id, None, rounds + 1)
            IN [rest EXCEPT !.keys = @ \cup r.changed_keys]

\* incremental_reconcile that starts from every record of the store
incremental_reconcile_all(p, s, changed_id, old_record_for_changed) ==
    LET key_queue == IF changed_id \in DOMAIN p.applied THEN p.applied[changed_id].deps ELSE {}
        loop == ReconcileLoop(p, s, {changed_id} \cup DOMAIN s.records, changed_id,
                              old_record_for_changed, 0)
    IN [loop EXCEPT !.keys = @ \cup key_queue]

\* incremental_reconcile; keys also holds the key_queue, the old keys of the
\* changed record
incremental_reconcile(p, s, changed_id, old_record_for_changed) ==
    LET key_queue == IF changed_id \in DOMAIN p.applied THEN p.applied[changed_id].deps ELSE {}
        impacted == {changed_id} \cup Linked(p.dep_index, key_queue)
        loop == ReconcileLoop(p, s, impacted, changed_id, old_record_for_changed, 0)
    IN [loop EXCEPT !.keys = @ \cup key_queue]

\* Projector::apply_stored_op: [p, err, rounds, impacted, keys]
apply_stored_op(p, s, stored) ==
    LET op == stored.op
        cur == get(s, OpId(op))
        old_record ==
            CASE op.kind = "Insert" -> None
              [] op.kind = "Patch" -> Some(apply_to(op.prev, cur[1]))
              [] op.kind = "Void" -> Some([cur[1] EXCEPT !.flags.is_void = op.prev_is_void])
    IN IF op.kind # "Insert" /\ ~IsSome(cur)
       THEN [p |-> p, err |-> Some(MissingQso(OpId(op))), rounds |-> 0, impacted |-> {},
             keys |-> {}]
       ELSE incremental_reconcile(p, s, OpId(op), old_record)

\* full_recompute_projection of the test: the loop over ordered_ids
RECURSIVE FullRecompute(_, _, _, _)
FullRecompute(state, out, s, ids) ==
    IF ids = << >> THEN out
    ELSE LET id == Head(ids)
         IN IF ~IsSome(get(s, id)) \/ get(s, id)[1].flags.is_void
            THEN FullRecompute(state, out, s, Tail(ids))
            ELSE LET a == engine_apply(state, get(s, id)[1])
                 IN FullRecompute(a.state, MapPut(out, id, a.applied), s, Tail(ids))

\* full_recompute_projection
full_recompute_projection(s) == FullRecompute(new_state, EmptyMap, s, ordered_ids(s))

(***************************************************************************)
(* Inputs of the calls.                                                    *)
(***************************************************************************)
\* now_ms(): the wall clock read when a StoredOp is built
Clock == {1000}

DraftOf(call, contest, flags) ==
    [BaseDraft EXCEPT !.callsign_raw = call, !.callsign_norm = call,
                      !.contest_instance_id = contest, !.flags = flags]

PatchCall(call) == [EmptyPatch EXCEPT !.callsign_raw = Some(call), !.callsign_norm = Some(call)]

\* an id no record of the live store has
MissingId == U64_MAX - 1

\* drafts and patches of the store calls
Drafts ==
    {DraftOf("A1AA", 1, QsoFlags(FALSE, FALSE)),
     DraftOf("C1CC", 2, QsoFlags(FALSE, FALSE))}

Patches ==
    {PatchCall("C1CC"),
     [EmptyPatch EXCEPT !.callsign_norm = Some("A1AA"), !.contest_instance_id = Some(2)],
     [EmptyPatch EXCEPT !.contest_instance_id = Some(1), !.callsign_norm = Some("A1AA"),
                        !.freq_hz = Some(14030000),
                        !.is_void = Some(TRUE), !.dupe_override = Some(TRUE)]}

\* journal rows handed to apply_replayed_op: fresh and already used ids,
\* seqs below and above next_op_seq, and the largest id and seq
ReplayOps ==
    {StoredOp(3, 1000, OpInsert(RecordOf(2, DraftOf("A1AA", 2, QsoFlags(FALSE, FALSE))))),
     StoredOp(U64_MAX, 1000,
              OpInsert(RecordOf(U64_MAX, DraftOf("C1CC", 1, QsoFlags(FALSE, FALSE))))),
     StoredOp(1, 1000, OpPatch(1, PatchCall("C1CC"), PatchCall("A1AA"))),
     StoredOp(5, 1000, OpVoid(1, FALSE))}

\* drafts and patches of the round trip: flags clear and flags already set
RtDrafts ==
    {DraftOf("A1AA", 1, QsoFlags(FALSE, FALSE)),
     DraftOf("C1CC", 1, QsoFlags(TRUE, TRUE))}

RtPatches ==
    {PatchCall("C1CC"),
     [EmptyPatch EXCEPT !.freq_hz = Some(14030000), !.is_void = Some(TRUE)]}

\* drafts and patches of the projection: callsigns sharing a dupe key, a
\* multiplier bucket ("A1AA", "A2BB") or neither, two bands, void records
ProjDrafts ==
    {DraftOf("A1AA", 7, QsoFlags(FALSE, FALSE)),
     DraftOf("A2BB", 7, QsoFlags(FALSE, FALSE)),
     DraftOf("A1AA", 7, QsoFlags(TRUE, FALSE))}

ProjPatches ==
    {PatchCall("A1AA"),
     PatchCall("C1CC"),
     [EmptyPatch EXCEPT !.band = Some("B40m")],
     [EmptyPatch EXCEPT !.is_void = Some(TRUE)]}

(***************************************************************************)
(* The runtime (src/src/runtime/handle.rs): commands, messages, events.    *)
(***************************************************************************)
\* RuntimeConfig, with the sink argument of spawn_qsolog and the ack_mode
\* that the callers of spawn_qsolog set
RuntimeConfig(has_sink, ack_mode, flush_on_insert, batch_max_ops, persist_queue_bound, snapshot_every_ops, compact_after_snapshot) ==
    [has_sink |-> has_sink, ack_mode |-> ack_mode, flush_on_insert |-> flush_on_insert,
     batch_max_ops |-> batch_max_ops, persist_queue_bound |-> persist_queue_bound,
     snapshot_every_ops |-> snapshot_every_ops,
     compact_after_snapshot |-> compact_after_snapshot]

\* RuntimeConfig::default(), no sink
RuntimeConfigDefault == RuntimeConfig(FALSE, "InMemory", TRUE, 32, 64, 2000, FALSE)

\* enum Command, the mutation commands; n numbers the client calls
CmdInsert(draft) == [kind |-> "Insert", draft |-> draft]

CmdPatch(id, p) == [kind |-> "Patch", id |-> id, patch |-> p]

CmdVoid(id) == [kind |-> "Void", id |-> id]

CmdUndo == [kind |-> "Undo"]

CmdRedo == [kind |-> "Redo"]

\* enum Command, the read commands
CmdGet(id) == [kind |-> "Get", id |-> id]

CmdRecent(n) == [kind |-> "Recent", n |-> n]

CmdByCall(call) == [kind |-> "ByCall", call |-> call]

\* enum Command, the commands answered by the persistence worker
CmdFlush == [kind |-> "Flush"]

CmdCheckpoint == [kind |-> "Checkpoint"]

CmdShutdown == [kind |-> "Shutdown"]

\* enum PersistMsg
MsgOp(stored) == [kind |-> "Op", stored |-> stored]

MsgCheckpoint(snapshot, last_seq, compact) ==
    [kind |-> "Checkpoint", snapshot |-> snapshot, last_seq |-> last_seq,
     compact |-> compact]

MsgFlush == [kind |-> "Flush"]

MsgShutdown == [kind |-> "Shutdown"]

\* rx.recv() of the worker returned None: every sender is gone
RecvClosed == [kind |-> "Closed"]

\* enum QsoEvent
Inserted(id) == << "Inserted", id >>

Updated(id) == << "Updated", id >>

Voided(id) == << "Voided", id >>

UndoApplied == << "UndoApplied" >>

RedoApplied == << "RedoApplied" >>

DurableUpTo(op_seq) == << "DurableUpTo", op_seq >>

\* enum RuntimeError
RuntimeStore(e) == << "Store", e >>

RuntimePersist(msg) == << "Persist", msg >>

ChannelClosed == << "ChannelClosed" >>

\* Result of a command
ReplyOk == << "Ok" >>

ReplyErr(e) == << "Err", e >>

\* entries of `log`: kind, the client call n (0: none), the op seq (0: none)
\* and what was sent
LogEntry(kind, n, seq, data) == [kind |-> kind, n |-> n, seq |-> seq, data |-> data]

\* the commands the clients send
RuntimeCommands ==
    {CmdInsert(DraftOf("A1AA", 1, QsoFlags(FALSE, FALSE))),
     CmdPatch(1, PatchCall("C1CC")),
     CmdVoid(1),
     CmdUndo,
     CmdRedo,
     CmdGet(1),
     CmdRecent(2),
     CmdByCall("A1AA")}

\* the state of all runtime variables when no runtime was spawned
NotSpawned ==
    /\ config = RuntimeConfigDefault
    /\ cmd_q = << >>
    /\ writer = [pc |-> "recv", handled |-> 0, ops_since_snapshot |-> 0, reply |-> << >>,
                 msg |-> << >>, cp_rx |-> << >>]
    /\ persist_q = << >>
    /\ worker = [pc |-> "recv", buf |-> << >>, last_durable |-> 0, batch |-> << >>,
                 call_flush |-> FALSE, msg |-> << >>, seen |-> << >>]
    /\ durable_q = << >>
    /\ sink = [appends |-> << >>, journal |-> << >>, snapshots |-> << >>, faults |-> 0]
    /\ log = << >>

(***************************************************************************)
(* The calls made on the live store.                                       *)
(***************************************************************************)
\* the harness does not feed the projector
NotFed(r) == [p |-> projector, err |-> None, rounds |-> 0, impacted |-> {}, keys |-> {}]

\* the harness feeds the projector the op of an Ok result, right after the call
Feed(r) == IF r.tag = "Ok" THEN apply_stored_op(projector, r.s, r.stored) ELSE NotFed(r)

\* what `hist` keeps of a call: its name, its result, the store after it,
\* the projector's applied map after it, and of the reconciliation the ids it
\* recomputed, the keys it went through and its number of rounds
HistEntry(call, r, stored, fed) ==
    [call |-> call, tag |-> r.tag,
     stored |-> IF r.tag = "Ok" THEN Some(stored) ELSE None,
     err |-> IF r.tag = "Err" THEN Some(r.err) ELSE None,
     s |-> IF r.tag = "Panic" THEN store ELSE r.s,
     applied |-> fed.p.applied,
     proj_err |-> fed.err,
     impacted |-> fed.impacted, keys |-> fed.keys, rounds |-> fed.rounds]

\* a call with result r: the live store becomes r.s, or the process panics
\* and the store is never seen again
Do(call, r, stored, fed) ==
    /\ ~panicked
    /\ store' = IF r.tag = "Panic" THEN store ELSE r.s
    /\ panicked' = (r.tag = "Panic")
    /\ projector' = fed.p
    /\ hist' = Append(hist, HistEntry(call, r, stored, fed))
    /\ UNCHANGED debug_build

DoEmitting(call, r, F(_)) ==
    LET fed == F(r)
    IN Do(call, r, IF r.tag = "Ok" THEN r.stored ELSE None, fed)

InsertCount == Cardinality({i \in 1..Len(hist) : hist[i].call = "insert"})

CanCall == Len(hist) < MaxOps

InsertWith(drafts, F(_)) ==
    /\ CanCall
    /\ InsertCount < MaxQsos
    /\ \E draft \in drafts, now \in Clock :
           LET r == insert(store, draft, now) IN DoEmitting("insert", r, F)

PatchWith(ids, patches, F(_)) ==
    /\ CanCall
    /\ \E id \in ids, p \in patches, now \in Clock :
           LET r == patch(store, id, p, now) IN DoEmitting("patch", r, F)

VoidWith(ids, F(_)) ==
    /\ CanCall
    /\ \E id \in ids, now \in Clock :
           LET r == void(store, id, now) IN DoEmitting("void", r, F)

UndoWith(F(_)) == \E now \in Clock : LET r == undo(store, now) IN DoEmitting("undo", r, F)

RedoWith(F(_)) == \E now \in Clock : LET r == redo(store, now) IN DoEmitting("redo", r, F)

(***************************************************************************)
(* Spec: any interleaving of the store's public calls.                     *)
(***************************************************************************)
Idle == UNCHANGED << rt_phase, rt_target, runtime_vars >>

Insert == InsertWith(Drafts, NotFed) /\ Idle

Patch == PatchWith(DOMAIN store.records, Patches, NotFed) /\ Idle

PatchMissing == PatchWith({MissingId}, {PatchCall("C1CC")}, NotFed) /\ Idle

Void == VoidWith((DOMAIN store.records) \cup {MissingId}, NotFed) /\ Idle

Undo == CanCall /\ UndoWith(NotFed) /\ Idle

Redo == CanCall /\ RedoWith(NotFed) /\ Idle

Replay ==
    /\ CanCall
    /\ \E stored \in ReplayOps, now \in Clock :
           LET r == apply_replayed_op(store, stored, now)
           IN Do("apply_replayed_op", r, stored, NotFed(r))
    /\ Idle

vars == << store, debug_build, panicked, hist, projector, rt_phase, rt_target, runtime_vars >>

Init ==
    /\ store = new
    /\ debug_build \in BOOLEAN
    /\ panicked = FALSE
    /\ hist = << >>
    /\ projector = projector_new
    /\ rt_phase = "mutate"
    /\ rt_target = << >>
    /\ NotSpawned

Next == Insert \/ Patch \/ PatchMissing \/ Void \/ Undo \/ Redo \/ Replay

Spec == Init /\ [][Next]_vars

(***************************************************************************)
(* SpecProj: the calls of the store, each Ok result fed to the projector   *)
(* right after it (src/tests/engine_incremental.rs).                       *)
(***************************************************************************)
ProjInsert == InsertWith(ProjDrafts, Feed) /\ Idle

ProjPatch == PatchWith(DOMAIN store.records, ProjPatches, Feed) /\ Idle

ProjVoid == VoidWith(DOMAIN store.records, Feed) /\ Idle

ProjUndo == CanCall /\ UndoWith(Feed) /\ Idle

ProjRedo == CanCall /\ RedoWith(Feed) /\ Idle

NextProj == ProjInsert \/ ProjPatch \/ ProjVoid \/ ProjUndo \/ ProjRedo

SpecProj == Init /\ [][NextProj]_vars

(***************************************************************************)
(* SpecRoundTrip: mutations, then undo until NothingToUndo, then redo      *)
(* until NothingToRedo (src/tests/property_invariants.rs:130-148).         *)
(***************************************************************************)
\* snapshot_records of the test, with the order it walks
snapshot_records(s) == [order |-> ordered_ids(s), records |-> RecordsOf(s, ordered_ids(s))]

Mutating == rt_phase = "mutate" /\ UNCHANGED << rt_phase, rt_target, runtime_vars >>

RtInsert == InsertWith(RtDrafts, NotFed) /\ Mutating

RtPatch == PatchWith(DOMAIN store.records, RtPatches, NotFed) /\ Mutating

RtVoid == VoidWith(DOMAIN store.records, NotFed) /\ Mutating

RtSnapshot ==
    /\ rt_phase = "mutate"
    /\ ~panicked
    /\ rt_phase' = "undo"
    /\ rt_target' = snapshot_records(store)
    /\ UNCHANGED << store, debug_build, panicked, hist, projector, runtime_vars >>

\* the rt_phase after one step of a loop that ends on `empty`
LoopPhase(r, empty, next_phase) ==
    IF r.tag = "Ok" THEN rt_phase
    ELSE IF r.tag = "Err" /\ r.err = empty THEN next_phase
         ELSE "failed"

RtUndo ==
    /\ rt_phase = "undo"
    /\ UndoWith(NotFed)
    /\ rt_phase' = LoopPhase(Last(hist'), Some(NothingToUndo), "redo")
    /\ UNCHANGED << rt_target, runtime_vars >>

RtRedo ==
    /\ rt_phase = "redo"
    /\ RedoWith(NotFed)
    /\ rt_phase' = LoopPhase(Last(hist'), Some(NothingToRedo), "done")
    /\ UNCHANGED << rt_target, runtime_vars >>

NextRoundTrip == RtInsert \/ RtPatch \/ RtVoid \/ RtSnapshot \/ RtUndo \/ RtRedo

SpecRoundTrip == Init /\ [][NextRoundTrip]_vars

(***************************************************************************)
(* Properties.                                                             *)
(***************************************************************************)
\* the store before call i of hist
StoreBefore(i) == IF i = 1 THEN new ELSE hist[i - 1].s

\* the values of `field` that some record or some bucket of `index` has
KeysOf(s, index, field) == (DOMAIN index) \cup {s.records[id][field] : id \in DOMAIN s.records}

\* every bucket of `index` is the projection of `order` on its key
IndexIsProjection(s, index, field) ==
    \A key \in KeysOf(s, index, field) : MapGet(index, key, << >>) = FilterOrder(s, field, key)

\* C1: after any sequence of insert, patch, void, undo and redo calls (and
\* replays), every by_call and every by_contest bucket holds exactly the ids
\* of `order` whose record has that callsign_norm / contest_instance_id, in
\* the relative order of `order`.
C1_IndicesAreProjections ==
    /\ IndexIsProjection(store, store.by_call, "callsign_norm")
    /\ IndexIsProjection(store, store.by_contest, "contest_instance_id")

\* C1 witness: records 1, 2, 3 were inserted and a patch then moved record 1
\* into the callsign bucket of record 3, which now reads [1, 3].
C1_Witness ==
    /\ hist # << >>
    /\ Last(hist).call = "patch"
    /\ Last(hist).tag = "Ok"
    /\ Last(hist).stored[1].op.id = 1
    /\ Len(store.order) = 3
    /\ "C1CC" \in DOMAIN store.by_call
    /\ store.by_call["C1CC"] = << 1, 3 >>
    /\ StoreBefore(Len(hist)).by_call["C1CC"] = << 3 >>

\* C2: after every public QsoStore call ordered_ids() has no duplicate id,
\* every id in it has a record, no record exists outside it and its length
\* is the number of records.
C2_OrderMatchesRecords ==
    /\ NoDup(ordered_ids(store))
    /\ SeqToSet(ordered_ids(store)) = DOMAIN store.records
    /\ Len(ordered_ids(store)) = Cardinality(DOMAIN store.records)

\* C2 witness: a journal row inserting id 2 was replayed into a store that
\* already holds records 1 and 2, and was refused.
C2_Witness ==
    /\ hist # << >>
    /\ Last(hist).call = "apply_replayed_op"
    /\ Last(hist).err = Some(AlreadyExists(2))
    /\ Len(ordered_ids(store)) >= 2

\* the id of the Void op on top of the undo stack, if it is Void{id, false}
\* (the inverse an insert pushes)
UndoesInsertOf(s) ==
    IF s.undo # << >> /\ Last(s.undo).kind = "Void" /\ ~Last(s.undo).prev_is_void
    THEN {Last(s.undo).id}
    ELSE {}

C3_Step ==
    /\ IsPrefix(store.order, store'.order)
    /\ store'.order # store.order =>
           /\ Last(hist').call \in {"insert", "apply_replayed_op"}
           /\ Last(hist').tag = "Ok"
           /\ Last(hist').stored[1].op.kind = "Insert"
           /\ store'.order = Append(store.order, Last(hist').stored[1].op.qso.id)
    /\ (hist' # hist /\ Last(hist').call = "undo" /\ Last(hist').tag = "Ok") =>
           \A id \in UndoesInsertOf(store) :
               /\ id \in SeqToSet(store'.order)
               /\ store'.records[id].flags.is_void

\* C3: for every public call (insert, patch, void, undo, redo,
\* apply_replayed_op) the order before the call is a prefix of the order
\* after it; only an insert (called or replayed) extends it, by its one id
\* at the end; undoing an insert leaves the id in order, its record void.
C3_OrderOnlyGrows == [][C3_Step]_vars

\* C3 witness: an insert was undone by the next call; the id is still in
\* order and the record is void.
C3_Witness ==
    /\ Len(hist) >= 2
    /\ hist[Len(hist) - 1].call = "insert"
    /\ hist[Len(hist) - 1].tag = "Ok"
    /\ Last(hist).call = "undo"
    /\ Last(hist).tag = "Ok"
    /\ store.order = hist[Len(hist) - 1].s.order
    /\ store.records[hist[Len(hist) - 1].stored[1].op.qso.id].flags.is_void
    /\ Len(store.order) >= 2

\* call i of hist emitted a StoredOp (insert, patch, void, undo, redo)
Emitted(i) == hist[i].tag = "Ok" /\ hist[i].call # "apply_replayed_op"

\* no call before call j was a replay, and every call up to j succeeded
FreshAllOk(j) == \A i \in 1..j : Emitted(i)

\* C4: every StoredOp emitted by insert, patch, void, undo or redo has a seq
\* strictly greater than the seq of every StoredOp emitted by or replayed
\* into the store before; in a fresh store whose calls all succeed the n-th
\* emitted op has seq n.
C4_SeqStrictlyIncreasing ==
    \A j \in 1..Len(hist) :
        Emitted(j) =>
            /\ \A i \in 1..(j - 1) :
                   hist[i].tag = "Ok" => hist[j].stored[1].seq > hist[i].stored[1].seq
            /\ FreshAllOk(j) => hist[j].stored[1].seq = j

\* the number of insert calls among the first j calls
InsertsUpTo(j) == Cardinality({i \in 1..j : hist[i].call = "insert"})

\* C5: in every store reachable from new() through insert, patch, void,
\* undo, redo and apply_replayed_op, next_qso_id is greater than every
\* existing id; insert never returns AlreadyExists and returns an id greater
\* than all ids that existed; in a fresh store the k-th insert returns id k.
C5_NextIdAboveAll ==
    /\ \A id \in DOMAIN store.records : store.next_qso_id > id
    /\ \A j \in 1..Len(hist) :
           hist[j].call = "insert" /\ hist[j].tag # "Panic" =>
               /\ hist[j].tag = "Ok"
               /\ \A id \in DOMAIN StoreBefore(j).records : hist[j].stored[1].op.qso.id > id
               /\ (\A i \in 1..j : hist[i].call # "apply_replayed_op") =>
                      hist[j].stored[1].op.qso.id = InsertsUpTo(j)

\* C6: after any sequence of insert/patch/void (drafts with flags already
\* set included), undo until NothingToUndo and then redo until NothingToRedo
\* returns every record and order to the state before the first undo, and no
\* undo or redo on the way returns another error.
C6_UndoAllRedoAllRestores ==
    /\ rt_phase # "failed"
    /\ rt_phase = "done" => snapshot_records(store) = rt_target

\* the live store's view of call i's record `id`: fields and index membership
RecordView(s, id) ==
    [rec |-> get(s, id),
     call_bucket |-> [k \in DOMAIN s.by_call |-> s.by_call[k]],
     contest_bucket |-> [k \in DOMAIN s.by_contest |-> s.by_contest[k]]]

\* calls i (a successful patch), i+1 (undo) and, where present, i+2 (redo)
PatchThenUndo(i) ==
    /\ i + 1 <= Len(hist)
    /\ hist[i].call = "patch" /\ hist[i].tag = "Ok"
    /\ hist[i + 1].call = "undo" /\ hist[i + 1].tag = "Ok"

PatchUndoRedo(i) ==
    /\ PatchThenUndo(i)
    /\ i + 2 <= Len(hist)
    /\ hist[i + 2].call = "redo" /\ hist[i + 2].tag = "Ok"

\* C7: for an existing record and any patch, patch(id, p) followed by undo()
\* restores the record to its pre-patch value, all fields and its index
\* membership, and a following redo() restores the post-patch value.
C7_PatchUndoRedoExact ==
    \A i \in 1..Len(hist) :
        /\ PatchThenUndo(i) =>
               /\ RecordView(hist[i + 1].s, hist[i].stored[1].op.id)
                      = RecordView(StoreBefore(i), hist[i].stored[1].op.id)
               /\ hist[i + 1].s.records = StoreBefore(i).records
        /\ PatchUndoRedo(i) =>
               /\ RecordView(hist[i + 2].s, hist[i].stored[1].op.id)
                      = RecordView(hist[i].s, hist[i].stored[1].op.id)
               /\ hist[i + 2].s.records = hist[i].s.records

\* C7 witness: a patch that changed the record's fields and moved it between
\* buckets of both indices was undone and redone.
C7_Witness ==
    \E i \in 1..Len(hist) :
        /\ PatchUndoRedo(i)
        /\ hist[i].s.records # StoreBefore(i).records
        /\ hist[i].s.by_call # StoreBefore(i).by_call
        /\ hist[i].s.by_contest # StoreBefore(i).by_contest

\* the callsigns and ids a read can be asked about
ReadCalls == {"A1AA", "A2BB", "C1CC", ""}

ReadIds == 1..(MaxQsos + 1) \cup {MissingId, U64_MAX}

\* what the read operations return: get, recent, by_call, ordered_ids,
\* latest_op_seq
ReadsOf(s) ==
    [get |-> [id \in ReadIds |-> get(s, id)],
     recent |-> [n \in 0..(MaxQsos + 1) |-> recent(s, n)],
     by_call |-> [c \in ReadCalls |-> by_call(s, c)],
     ordered_ids |-> ordered_ids(s),
     latest_op_seq |-> latest_op_seq(s)]

\* the StoredOps the store's calls emitted, in emission order
RECURSIVE Journal(_)
Journal(n) ==
    IF n = 0 THEN << >>
    ELSE IF Emitted(n) THEN Append(Journal(n - 1), hist[n].stored[1])
         ELSE Journal(n - 1)

\* apply_replayed_op of each op in turn, stopping at the first error
RECURSIVE ReplayAll(_, _)
ReplayAll(s, ops) ==
    IF ops = << >> THEN [s |-> s, ok |-> TRUE]
    ELSE LET r == apply_replayed_op(s, Head(ops), 1000)
         IN IF r.tag = "Ok" THEN ReplayAll(r.s, Tail(ops))
            ELSE [s |-> s, ok |-> FALSE]

\* the store was built by its own calls only
NeverReplayedInto == \A i \in 1..Len(hist) : hist[i].call # "apply_replayed_op"

\* C8: applying every StoredOp the store has emitted (those of undo and redo
\* included), in emission order, to a fresh store through apply_replayed_op
\* succeeds and gives a store equal to the original for get, recent,
\* by_call, ordered_ids and latest_op_seq.
C8_ReplayEquivalent ==
    NeverReplayedInto =>
        LET replayed == ReplayAll(new, Journal(Len(hist)))
        IN /\ replayed.ok
           /\ ReadsOf(replayed.s) = ReadsOf(store)

\* C9: from_snapshot(export_snapshot(s)) equals s for get, recent, by_call,
\* ordered_ids and latest_op_seq, its secondary indices are rebuilt in
\* insertion order, and its next insert receives the id and seq that s's
\* next insert would.
C9_SnapshotRoundTrip ==
    LET loaded == from_snapshot(export_snapshot(store))
        mine == insert(store, BaseDraft, 1000)
        theirs == insert(loaded, BaseDraft, 1000)
    IN /\ ReadsOf(loaded) = ReadsOf(store)
       /\ IndexIsProjection(loaded, loaded.by_call, "callsign_norm")
       /\ IndexIsProjection(loaded, loaded.by_contest, "contest_instance_id")
       /\ theirs.tag = mine.tag
       /\ mine.tag = "Ok" =>
              /\ theirs.stored.seq = mine.stored.seq
              /\ theirs.stored.op.qso.id = mine.stored.op.qso.id

\* C9 witness: a store with three records, two of them in one by_call
\* bucket, a next_op_seq ahead of the ops it holds and a non-empty undo
\* stack, which the snapshot does not carry.
C9_Witness ==
    /\ Len(store.order) = 3
    /\ store.next_op_seq > 4
    /\ \E c \in DOMAIN store.by_call : Len(store.by_call[c]) >= 2
    /\ from_snapshot(export_snapshot(store)).undo = << >>
    /\ store.undo # << >>

\* the projector's applied map before call i
AppliedBefore(i) == IF i = 1 THEN EmptyMap ELSE hist[i - 1].applied

\* C10: with apply_stored_op called right after each emitted StoredOp, the
\* projector's applied map equals the map of a full recompute over the
\* non-void records in order (counting engine of the test); after a patch
\* followed by undo it is the pre-patch map, and after redo the post-patch
\* map.
C10_IncrementalEqualsFull ==
    /\ projector.applied = full_recompute_projection(store)
    /\ \A i \in 1..Len(hist) :
           /\ PatchThenUndo(i) => hist[i + 1].applied = AppliedBefore(i)
           /\ PatchUndoRedo(i) => hist[i + 2].applied = hist[i].applied

\* C10 witness: a patch changed the projection of a record other than the
\* patched one, and was undone.
C10_Witness ==
    \E i \in 1..Len(hist) :
        /\ PatchThenUndo(i)
        /\ \E id \in DOMAIN hist[i].applied \cap DOMAIN AppliedBefore(i) :
               /\ id # hist[i].stored[1].op.id
               /\ hist[i].applied[id] # AppliedBefore(i)[id]
        /\ projector.applied = AppliedBefore(i)

\* C10 witness of the redo: a patch that changed the applied map was undone
\* and redone.
C10_WitnessRedo ==
    \E i \in 1..Len(hist) :
        /\ PatchUndoRedo(i)
        /\ hist[i].applied # AppliedBefore(i)
        /\ projector.applied = hist[i].applied

\* call i returned MissingQso
ReturnedMissing(i) ==
    /\ hist[i].tag = "Err"
    /\ hist[i].err[1][1] = "MissingQso"

\* the seq of the last StoredOp emitted by the first n calls, 0 when none
RECURSIVE LastEmittedSeq(_)
LastEmittedSeq(n) ==
    IF n = 0 THEN 0
    ELSE IF Emitted(n) THEN hist[n].stored[1].seq ELSE LastEmittedSeq(n - 1)

\* C11: patch(id, p) or void(id) on an id not in the store returns
\* MissingQso(id) and leaves the whole store unchanged (records, order,
\* indices, both stacks, pending buffer, next_qso_id, next_op_seq), so
\* latest_op_seq() is still the seq of the last emitted StoredOp, or 0.
C11_MissingIdLeavesStore ==
    \A i \in 1..Len(hist) :
        /\ (hist[i].call \in {"patch", "void"} /\ ReturnedMissing(i)) =>
               /\ hist[i].s = StoreBefore(i)
               /\ NeverReplayedInto => latest_op_seq(hist[i].s) = LastEmittedSeq(i)

\* C12: undo() on an empty undo stack returns NothingToUndo and redo() on an
\* empty redo stack returns NothingToRedo; no StoredOp is emitted and the
\* whole store (stacks, records, pending buffer, next_op_seq) is unchanged.
C12_EmptyStackErrors ==
    \A i \in 1..Len(hist) :
        /\ (hist[i].call = "undo" /\ StoreBefore(i).undo = << >>) =>
               /\ hist[i].err = Some(NothingToUndo)
               /\ hist[i].stored = None
               /\ hist[i].s = StoreBefore(i)
        /\ (hist[i].call = "redo" /\ StoreBefore(i).redo = << >>) =>
               /\ hist[i].err = Some(NothingToRedo)
               /\ hist[i].stored = None
               /\ hist[i].s = StoreBefore(i)

\* C12 witness: undo was called with an empty undo stack on a store that
\* holds a record, a non-empty redo stack and a used seq.
C12_Witness ==
    /\ hist # << >>
    /\ Last(hist).call = "undo"
    /\ Last(hist).err = Some(NothingToUndo)
    /\ store.redo # << >>
    /\ store.records # EmptyMap
    /\ store.next_op_seq > 1

\* C13: a successful insert, patch or void leaves redo empty and adds one
\* undo entry; a successful undo moves one entry from undo to redo without
\* clearing redo, a successful redo one from redo to undo; each of the five
\* emits exactly one StoredOp and increases next_op_seq by exactly one.
C13_StackDiscipline ==
    \A i \in 1..Len(hist) :
        Emitted(i) =>
            LET before == StoreBefore(i)
                after == hist[i].s
            IN /\ hist[i].call \in {"insert", "patch", "void"} =>
                      /\ after.redo = << >>
                      /\ Len(after.undo) = Len(before.undo) + 1
                      /\ Front(after.undo) = before.undo
               /\ hist[i].call = "undo" =>
                      /\ after.undo = Front(before.undo)
                      /\ Len(after.redo) = Len(before.redo) + 1
                      /\ Front(after.redo) = before.redo
               /\ hist[i].call = "redo" =>
                      /\ after.redo = Front(before.redo)
                      /\ Len(after.undo) = Len(before.undo) + 1
                      /\ Front(after.undo) = before.undo
               /\ after.pending_ops = Append(before.pending_ops, hist[i].stored[1])
               /\ after.next_op_seq - 1 = before.next_op_seq

\* C14: after a successful apply_replayed_op both stacks are empty, so the
\* next undo() returns NothingToUndo and the next redo() NothingToRedo; the
\* replayed op keeps its seq and next_op_seq becomes
\* max(next_op_seq, seq + 1).
C14_ReplayClearsStacks ==
    \A i \in 1..Len(hist) :
        (hist[i].call = "apply_replayed_op" /\ hist[i].tag = "Ok") =>
            LET before == StoreBefore(i)
                after == hist[i].s
                seq == hist[i].stored[1].seq
            IN /\ after.undo = << >> /\ after.redo = << >>
               /\ undo(after, 1000).tag = "Err" /\ undo(after, 1000).err = NothingToUndo
               /\ redo(after, 1000).tag = "Err" /\ redo(after, 1000).err = NothingToRedo
               /\ apply_replayed_op(before, hist[i].stored[1], 1000).stored.seq = seq
               /\ after.next_op_seq - 1 = Max(before.next_op_seq - 1, seq)

\* the inverse call i pushed: on the redo stack by undo, on the undo stack
\* by insert, patch, void and redo
PushedInverse(i) ==
    IF hist[i].call = "undo" THEN Last(hist[i].s.redo) ELSE Last(hist[i].s.undo)

\* the value a patch field has in a record
FieldOf(rec, f) == IF f \in {"is_void", "dupe_override"} THEN rec.flags[f] ELSE rec[f]

\* prev has the present fields of patch, each with the value it has in rec
CapturedFrom(prev, p, rec) ==
    \A f \in DOMAIN EmptyPatch :
        IF IsSome(p[f]) THEN prev[f] = Some(FieldOf(rec, f)) ELSE prev[f] = None

\* C29: the inverse pushed for an applied op: Void{id, prev_is_void=false}
\* for an insert; for a Void, a Void of the same id whose prev_is_void is the
\* record's new flag; for Patch{id, patch, prev}, Patch{id, patch=prev,
\* prev=patch}, where prev has exactly the present fields of patch and holds
\* the record's values of those fields before the patch.
C29_InverseShapes ==
    \A i \in DOMAIN hist :
        Emitted(i) =>
            LET op == hist[i].stored[1].op
                inv == PushedInverse(i)
            IN /\ op.kind = "Insert" => inv = OpVoid(op.qso.id, FALSE)
               /\ op.kind = "Void" =>
                      inv = OpVoid(op.id, hist[i].s.records[op.id].flags.is_void)
               /\ op.kind = "Patch" =>
                      /\ inv = OpPatch(op.id, op.prev, op.patch)
                      /\ CapturedFrom(op.prev, op.patch, StoreBefore(i).records[op.id])

\* a patch changed a field, an undo applied its inverse and pushed the
\* forward patch back, and a void was applied and flipped the record's flag
C29_Witness ==
    /\ \E i \in DOMAIN hist :
           /\ Emitted(i)
           /\ hist[i].call = "patch"
           /\ hist[i].stored[1].op.patch # hist[i].stored[1].op.prev
    /\ \E i \in DOMAIN hist :
           /\ Emitted(i)
           /\ hist[i].call = "undo"
           /\ hist[i].stored[1].op.kind = "Patch"
    /\ \E i \in DOMAIN hist :
           /\ Emitted(i)
           /\ hist[i].stored[1].op.kind = "Void"
           /\ PushedInverse(i).prev_is_void # hist[i].stored[1].op.prev_is_void

(***************************************************************************)
(* The runtime: clients, the writer task and the persistence worker.       *)
(***************************************************************************)
\* the client calls made so far
Sent == writer.handled + Len(cmd_q)

\* QsoLogHandle::insert / patch / void / undo / redo: a client sends one
\* command on the cmd channel.  The channel is first-in first-out and the
\* writer only ever looks at its head, so a command is sent when the channel
\* is empty: a behaviour with more commands queued differs only in when the
\* clients made their calls.
Submit ==
    /\ Sent < MaxCmds
    /\ cmd_q = << >>
    /\ \E cmd \in RuntimeCommands : cmd_q' = Append(cmd_q, cmd)
    /\ UNCHANGED << store, debug_build, panicked, hist, projector, rt_phase, rt_target,
                    config, writer, persist_q, worker, durable_q, sink, log >>

\* enqueue_persist on a channel that hands over the newest message first
enqueue_persist_front(q, stored) ==
    IF Len(q) < config.persist_queue_bound
    THEN [q |-> << MsgOp(stored) >> \o q, res |-> ReplyOk]
    ELSE [q |-> q, res |-> ReplyErr(RuntimePersist("persist queue error"))]

\* enqueue_persist: try_send of the op on the bounded persistence channel
enqueue_persist(q, stored) ==
    IF Len(q) < config.persist_queue_bound
    THEN [q |-> Append(q, MsgOp(stored)), res |-> ReplyOk]
    ELSE [q |-> q, res |-> ReplyErr(RuntimePersist("persist queue error"))]

\* the domain event of a command whose store call returned r
EventFor(cmd, r) ==
    CASE cmd.kind = "Insert" -> Inserted(r.stored.op.qso.id)
      [] cmd.kind = "Patch" -> Updated(cmd.id)
      [] cmd.kind = "Void" -> Voided(cmd.id)
      [] cmd.kind = "Undo" -> UndoApplied
      [] cmd.kind = "Redo" -> RedoApplied

\* the closure of a mutation arm that leaves durability to the sink alone
AfterStoreOk_silent(c, r) ==
    LET seq == r.stored.seq
        mutated == << LogEntry("mutate", c.n, seq, << c.cmd.kind >>) >>
        event == << LogEntry("event", c.n, seq, EventFor(c.cmd, r)) >>
    IN IF config.has_sink
       THEN LET e == enqueue_persist(persist_q, r.stored)
            IN [q |-> e.q, res |-> e.res,
                said |-> IF e.res = ReplyOk
                         THEN mutated \o << LogEntry("enqueue", c.n, seq, << >>) >> \o event
                         ELSE mutated]
       ELSE [q |-> persist_q, res |-> ReplyOk,
             said |-> mutated \o event]

\* the and_then closure of a mutation arm of handle_command, for an Ok store
\* result: [q, res, said]
AfterStoreOk(c, r) ==
    LET seq == r.stored.seq
        mutated == << LogEntry("mutate", c.n, seq, << c.cmd.kind >>) >>
        event == << LogEntry("event", c.n, seq, EventFor(c.cmd, r)) >>
    IN IF config.has_sink
       THEN LET e == enqueue_persist(persist_q, r.stored)
            IN [q |-> e.q, res |-> e.res,
                said |-> IF e.res = ReplyOk
                         THEN mutated \o << LogEntry("enqueue", c.n, seq, << >>) >> \o event
                         ELSE mutated]
       ELSE [q |-> persist_q, res |-> ReplyOk,
             said |-> mutated
                      \o << LogEntry("event", c.n, seq, DurableUpTo(latest_op_seq(r.s))) >>
                      \o event]

\* a mutation arm that answers the client before it runs the and_then closure
ReplyAfter_first(said, reply) == << reply >> \o said

\* a mutation arm of handle_command: resp.send(res) comes after the and_then
\* closure that mutated, handed the op over and broadcast
ReplyAfter(said, reply) == said \o << reply >>

\* maybe_auto_checkpoint goes past its early returns
AutoCheckpointDue(ops) ==
    /\ config.snapshot_every_ops # 0
    /\ ops >= config.snapshot_every_ops
    /\ config.has_sink

\* one mutation arm of handle_command for the command c at the head of the
\* cmd channel, r being the result of its store call
HandleMutation(call, c, r) ==
    LET after == IF r.tag = "Ok" THEN AfterStoreOk(c, r)
                 ELSE [q |-> persist_q,
                       res |-> IF r.tag = "Err" THEN ReplyErr(RuntimeStore(r.err))
                               ELSE << "Panic" >>,
                       said |-> << >>]
        seq == IF r.tag = "Ok" THEN r.stored.seq ELSE 0
        counted == c.cmd.kind = "Insert" /\ after.res = ReplyOk
        ops == IF counted THEN writer.ops_since_snapshot + 1 ELSE writer.ops_since_snapshot
        reply == LogEntry("reply", c.n, seq, after.res)
    IN /\ DoEmitting(call, r, NotFed)
       /\ cmd_q' = Tail(cmd_q)
       /\ persist_q' = after.q
       /\ IF r.tag = "Panic"
          THEN /\ writer' = [writer EXCEPT !.pc = "panicked", !.handled = c.n]
               /\ log' = log
          ELSE IF counted /\ AutoCheckpointDue(ops)
               THEN /\ writer' = [writer EXCEPT
                                     !.pc = "cp_send",
                                     !.handled = c.n,
                                     !.ops_since_snapshot = ops,
                                     !.reply = << reply >>,
                                     !.msg = << MsgCheckpoint(export_snapshot(r.s),
                                                              latest_op_seq(r.s),
                                                              config.compact_after_snapshot) >>]
                    /\ log' = log \o after.said
               ELSE /\ writer' = [writer EXCEPT !.ops_since_snapshot = ops, !.handled = c.n]
                    /\ log' = log \o ReplyAfter(after.said, reply)
       /\ UNCHANGED << rt_phase, rt_target, config, worker, durable_q, sink >>

\* the writer is in its select and the cmd channel holds a command of `kind`
Receives(kind) ==
    /\ writer.pc = "recv"
    /\ cmd_q # << >>
    /\ Head(cmd_q).kind = kind

\* the command at the head of the cmd channel, numbered in handling order
Received == [n |-> writer.handled + 1, cmd |-> Head(cmd_q)]

\* handle_command, Command::Insert
HandleInsert ==
    /\ Receives("Insert")
    /\ \E now \in Clock :
           \E r \in {insert(store, Received.cmd.draft, now)} :
               HandleMutation("insert", Received, r)

\* handle_command, Command::Patch
HandlePatch ==
    /\ Receives("Patch")
    /\ \E now \in Clock :
           \E r \in {patch(store, Received.cmd.id, Received.cmd.patch, now)} :
               HandleMutation("patch", Received, r)

\* handle_command, Command::Void
HandleVoid ==
    /\ Receives("Void")
    /\ \E now \in Clock :
           \E r \in {void(store, Received.cmd.id, now)} :
               HandleMutation("void", Received, r)

\* handle_command, Command::Undo
HandleUndo ==
    /\ Receives("Undo")
    /\ \E now \in Clock :
           \E r \in {undo(store, now)} : HandleMutation("undo", Received, r)

\* handle_command, Command::Redo
HandleRedo ==
    /\ Receives("Redo")
    /\ \E now \in Clock :
           \E r \in {redo(store, now)} : HandleMutation("redo", Received, r)

\* a read command answered from a store that holds no record
ReadAnswer_new(s, cmd) ==
    CASE cmd.kind = "Get" -> get(new, cmd.id)
      [] cmd.kind = "Recent" -> recent(new, cmd.n)
      [] cmd.kind = "ByCall" -> by_call(new, cmd.call)

\* what handle_command sends back for Command::Get, Recent and ByCall:
\* store.get_cloned(id), store.recent_cloned(n), store.by_call_cloned(&call)
ReadAnswer(s, cmd) ==
    CASE cmd.kind = "Get" -> get(s, cmd.id)
      [] cmd.kind = "Recent" -> recent(s, cmd.n)
      [] cmd.kind = "ByCall" -> by_call(s, cmd.call)

\* the appends of the sink that failed so far
FailedAppends == {i \in DOMAIN sink.appends : sink.appends[i].res[1] = "Err"}

\* handle_command, a read command: the answer is sent and nothing else
\* happens; hist keeps the call so that its entries stay numbered like the
\* commands, log keeps the answer and how many appends had failed by then
HandleRead(call, c) ==
    /\ ~panicked
    /\ hist' = Append(hist, [call |-> call, tag |-> "Read", stored |-> None, err |-> None,
                             s |-> store, applied |-> projector.applied,
                             proj_err |-> None, impacted |-> {}, keys |-> {},
                             rounds |-> 0])
    /\ cmd_q' = Tail(cmd_q)
    /\ writer' = [writer EXCEPT !.handled = c.n]
    /\ log' = Append(log, LogEntry("answer", c.n, 0,
                                   [cmd |-> c.cmd,
                                    answer |-> ReadAnswer(store, c.cmd),
                                    failed |-> Cardinality(FailedAppends)]))
    /\ UNCHANGED << store, debug_build, panicked, projector, rt_phase, rt_target,
                    config, persist_q, worker, durable_q, sink >>

\* handle_command, Command::Get
HandleGet == Receives("Get") /\ HandleRead("get", Received)

\* handle_command, Command::Recent
HandleRecent == Receives("Recent") /\ HandleRead("recent", Received)

\* handle_command, Command::ByCall
HandleByCall == Receives("ByCall") /\ HandleRead("by_call", Received)

\* spawn_qsolog writer loop, the durable_rx branch of the select: only an Ok
\* result is broadcast, an Err is dropped (the log keeps its receipt, which
\* is no broadcast)
WriterDurable ==
    /\ writer.pc = "recv"
    /\ durable_q # << >>
    /\ durable_q' = Tail(durable_q)
    /\ log' = IF Head(durable_q)[1] = "Ok"
              THEN Append(log, LogEntry("event", 0, Head(durable_q)[2],
                                        DurableUpTo(Head(durable_q)[2])))
              ELSE Append(log, LogEntry("durable_err", 0, Head(durable_q)[2], << >>))
    /\ UNCHANGED << store, debug_build, panicked, hist, projector, rt_phase, rt_target,
                    config, cmd_q, writer, persist_q, worker, sink >>

\* maybe_auto_checkpoint: the blocking tx.send of the Checkpoint message
\* completes once the persistence channel has room
WriterCheckpointSend ==
    /\ writer.pc = "cp_send"
    /\ Len(persist_q) < config.persist_queue_bound
    /\ persist_q' = Append(persist_q, writer.msg[1])
    /\ writer' = [writer EXCEPT !.pc = "cp_wait", !.msg = << >>]
    /\ log' = Append(log, LogEntry("checkpoint", writer.reply[1].n, 0, << >>))
    /\ UNCHANGED << store, debug_build, panicked, hist, projector, rt_phase, rt_target,
                    config, cmd_q, worker, durable_q, sink >>

\* maybe_auto_checkpoint after cp_rx.await, then the Insert arm's resp.send
WriterCheckpointDone ==
    /\ writer.pc = "cp_wait"
    /\ writer.cp_rx # << >>
    /\ writer' = [writer EXCEPT !.pc = "recv", !.ops_since_snapshot = 0,
                                !.reply = << >>, !.cp_rx = << >>]
    /\ log' = Append(log, writer.reply[1])
    /\ UNCHANGED << store, debug_build, panicked, hist, projector, rt_phase, rt_target,
                    config, cmd_q, persist_q, worker, durable_q, sink >>

\* Vec::push of the worker's buffer
buf_push(buf, stored) == Append(buf, stored)

\* flush_buf that passes a copy of the buffer and leaves the buffer as it is
StartFlush_keep(w, call_flush) ==
    [w EXCEPT !.pc = "sink", !.batch = w.buf, !.call_flush = call_flush]

\* flush_buf up to its spawn_blocking: the buffer is taken and the worker
\* awaits the sink
StartFlush(w, call_flush) ==
    [w EXCEPT !.pc = "sink", !.batch = w.buf, !.buf = << >>, !.call_flush = call_flush]

\* spawn_persistence_worker, PersistMsg::Op
WorkerRecvOp ==
    /\ worker.pc = "recv"
    /\ persist_q # << >>
    /\ Head(persist_q).kind = "Op"
    /\ LET stored == Head(persist_q).stored
           pushed == [worker EXCEPT !.buf = buf_push(worker.buf, stored),
                                    !.seen = Append(@, stored.seq)]
       IN /\ worker' = IF \/ Len(pushed.buf) >= config.batch_max_ops
                          \/ (config.flush_on_insert /\ stored.op.kind = "Insert")
                       THEN StartFlush(pushed, TRUE)
                       ELSE pushed
    /\ persist_q' = Tail(persist_q)
    /\ UNCHANGED << store, debug_build, panicked, hist, projector, rt_phase, rt_target,
                    config, cmd_q, writer, durable_q, sink, log >>

\* a Checkpoint arm that goes to write_snapshot without flush_buf
WorkerRecvCheckpoint_unflushed ==
    /\ worker.pc = "recv"
    /\ persist_q # << >>
    /\ Head(persist_q).kind = "Checkpoint"
    /\ worker' = [worker EXCEPT !.pc = "snapshot", !.msg = << Head(persist_q) >>]
    /\ persist_q' = Tail(persist_q)
    /\ UNCHANGED << store, debug_build, panicked, hist, projector, rt_phase, rt_target,
                    config, cmd_q, writer, durable_q, sink, log >>

\* spawn_persistence_worker, PersistMsg::Checkpoint up to the await in flush_buf
WorkerRecvCheckpoint ==
    /\ worker.pc = "recv"
    /\ persist_q # << >>
    /\ Head(persist_q).kind = "Checkpoint"
    /\ worker' = [StartFlush(worker, TRUE) EXCEPT !.msg = << Head(persist_q) >>]
    /\ persist_q' = Tail(persist_q)
    /\ UNCHANGED << store, debug_build, panicked, hist, projector, rt_phase, rt_target,
                    config, cmd_q, writer, durable_q, sink, log >>

\* a timer branch that only resets the deadline
WorkerTimer_idle ==
    /\ worker.pc = "recv"
    /\ worker.buf # << >>
    /\ UNCHANGED << store, debug_build, panicked, hist, projector, rt_phase, rt_target,
                    config, cmd_q, writer, persist_q, worker, durable_q, sink, log >>

\* spawn_persistence_worker, the sleep_until(deadline) branch of the select
WorkerTimer ==
    /\ worker.pc = "recv"
    /\ worker.buf # << >>
    /\ worker' = StartFlush(worker, FALSE)
    /\ UNCHANGED << store, debug_build, panicked, hist, projector, rt_phase, rt_target,
                    config, cmd_q, writer, persist_q, durable_q, sink, log >>

\* what OpSink::append_ops can answer for a batch: an error, or Ok with the
\* seq of the batch's last op (SqliteOpSink), or Ok with a smaller seq
AppendResults(batch) ==
    IF batch = << >> THEN {<< "None" >>}
    ELSE {<< "Err" >>, << "Ok", batch[Len(batch)].seq >>, << "Ok", 0 >>}

\* what OpSink::flush can answer
FlushResults(appended, call_flush) ==
    IF call_flush /\ appended[1] # "Err" THEN {"Ok", "Err"} ELSE {"None"}

\* flush_buf taking the sink's answer as the durable seq
AdvanceDurable_returned(last_durable, seq) == seq

\* flush_buf: last_durable after an append that returned Ok(seq)
AdvanceDurable(last_durable, seq) == IF seq > last_durable THEN seq ELSE last_durable

\* a Flush arm whose oneshot reply is never sent
FlushReply_lost(ok, last) == << >>

\* PersistMsg::Flush: resp.send(result.map(|_| last_durable))
FlushReply(ok, last) == IF ok THEN << "Ok", last >> ELSE << "Err" >>

\* flush_buf from the completion of spawn_blocking to its return, and what
\* the arm that called it does next: a Checkpoint message goes on to write
\* its snapshot unless the flush failed, a Flush message answers with
\* last_durable, a Shutdown message answers and the task ends, and so it
\* does when the channel was closed
WorkerSinkDone ==
    /\ worker.pc = "sink"
    /\ \E appended \in AppendResults(worker.batch) :
       \E flushed \in FlushResults(appended, worker.call_flush) :
           LET ok == appended[1] # "Err" /\ flushed # "Err"
               fault == ~ok \/ (appended[1] = "Ok" /\ appended[2] = 0)
               last == IF ok /\ appended[1] = "Ok"
                       THEN AdvanceDurable(worker.last_durable, appended[2])
                       ELSE worker.last_durable
               arm == IF worker.msg = << >> THEN "Op" ELSE worker.msg[1].kind
               checkpointing == arm = "Checkpoint"
           IN /\ fault => sink.faults < MaxFaults
              /\ sink' = [sink EXCEPT
                             !.faults = IF fault THEN @ + 1 ELSE @,
                             !.appends = IF appended[1] = "None" THEN @
                                         ELSE Append(@, [ops |-> worker.batch,
                                                         res |-> appended,
                                                         flushed |-> flushed]),
                             !.journal = IF appended[1] = "Ok" THEN @ \o worker.batch ELSE @]
              /\ durable_q' = CASE appended[1] = "None" -> durable_q
                                [] ok -> Append(durable_q, << "Ok", last >>)
                                [] OTHER -> Append(durable_q, << "Err", 0 >>)
              /\ worker' = [worker EXCEPT
                               !.pc = CASE checkpointing /\ ok -> "snapshot"
                                        [] arm \in {"Shutdown", "Closed"} -> "done"
                                        [] OTHER -> "recv",
                               !.batch = << >>,
                               !.last_durable = last,
                               !.msg = IF checkpointing /\ ok THEN @ ELSE << >>]
              /\ writer' = CASE checkpointing /\ ~ok -> [writer EXCEPT !.cp_rx = << "Err" >>]
                             [] arm = "Flush" -> [writer EXCEPT !.cp_rx = FlushReply(ok, last)]
                             [] arm = "Shutdown" -> [writer EXCEPT !.cp_rx = << "Ok" >>]
                             [] OTHER -> writer
    /\ UNCHANGED << store, debug_build, panicked, hist, projector, rt_phase, rt_target,
                    config, cmd_q, persist_q, log >>

\* compact_through that keeps the row at the cutoff
compact_through_below(journal, cutoff) == SelectSeq(journal, LAMBDA o : o.seq >= cutoff)

\* SqliteOpSink::compact_through on the journal rows
compact_through(journal, cutoff) == SelectSeq(journal, LAMBDA o : o.seq > cutoff)

\* what compact_through can answer, when it is called at all
CompactResults(written, compact) == IF written = "Ok" /\ compact THEN {"Ok", "Err"} ELSE {"None"}

\* spawn_persistence_worker, PersistMsg::Checkpoint after a successful flush:
\* write_snapshot, compact_through when asked and when the snapshot was
\* written, and the reply
WorkerSnapshot ==
    /\ worker.pc = "snapshot"
    /\ \E written \in {"Ok", "Err"} :
       \E compacted \in CompactResults(written, worker.msg[1].compact) :
           LET m == worker.msg[1]
               fault == written = "Err" \/ compacted = "Err"
           IN /\ fault => sink.faults < MaxFaults
              /\ sink' = [sink EXCEPT
                             !.faults = IF fault THEN @ + 1 ELSE @,
                             !.snapshots = IF written = "Ok"
                                           THEN Append(@, [snapshot |-> m.snapshot,
                                                           last_seq |-> m.last_seq])
                                           ELSE @,
                             !.journal = IF compacted = "Ok"
                                         THEN compact_through(@, m.last_seq)
                                         ELSE @]
              /\ writer' = [writer EXCEPT !.cp_rx = << IF fault THEN "Err" ELSE "Ok" >>]
    /\ worker' = [worker EXCEPT !.pc = "recv", !.msg = << >>]
    /\ UNCHANGED << store, debug_build, panicked, hist, projector, rt_phase, rt_target,
                    config, cmd_q, persist_q, durable_q, log >>

\* the configurations a runtime is spawned with: without a sink (the
\* defaults, and an automatic checkpoint interval of 1), with a sink behind a
\* queue of one slot that batches two ops, and with a sink that flushes on
\* every insert and checkpoints with compaction every second insert
Configs ==
    {RuntimeConfigDefault,
     RuntimeConfig(FALSE, "InMemory", TRUE, 32, 64, 1, FALSE),
     RuntimeConfig(TRUE, "InMemory", FALSE, 2, 1, 0, FALSE),
     RuntimeConfig(TRUE, "Durable", TRUE, 1, 2, 2, TRUE)}

\* spawn_qsolog(QsoStore::new(), sink, config); the counters of a fresh store
\* stay far from u64::MAX, where alone the two builds differ
InitRuntime ==
    /\ store = new
    /\ debug_build = FALSE
    /\ panicked = FALSE
    /\ hist = << >>
    /\ projector = projector_new
    /\ rt_phase = "mutate"
    /\ rt_target = << >>
    /\ config \in Configs
    /\ cmd_q = << >>
    /\ writer = [pc |-> "recv", handled |-> 0, ops_since_snapshot |-> 0, reply |-> << >>,
                 msg |-> << >>, cp_rx |-> << >>]
    /\ persist_q = << >>
    /\ worker = [pc |-> "recv", buf |-> << >>, last_durable |-> 0, batch |-> << >>,
                 call_flush |-> FALSE, msg |-> << >>, seen |-> << >>]
    /\ durable_q = << >>
    /\ sink = [appends |-> << >>, journal |-> << >>, snapshots |-> << >>, faults |-> 0]
    /\ log = << >>

NextRuntime ==
    \/ Submit
    \/ HandleInsert \/ HandlePatch \/ HandleVoid \/ HandleUndo \/ HandleRedo
    \/ HandleGet \/ HandleRecent \/ HandleByCall
    \/ WriterDurable \/ WriterCheckpointSend \/ WriterCheckpointDone
    \/ WorkerRecvOp \/ WorkerRecvCheckpoint \/ WorkerTimer
    \/ WorkerSinkDone \/ WorkerSnapshot

SpecRuntime == InitRuntime /\ [][NextRuntime]_vars

(***************************************************************************)
(* The runtime's Flush, Checkpoint and Shutdown commands, and the end of   *)
(* its two tasks.                                                          *)
(***************************************************************************)
\* the commands the clients send
LifecycleCommands ==
    {CmdInsert(DraftOf("A1AA", 1, QsoFlags(FALSE, FALSE))),
     CmdFlush,
     CmdCheckpoint,
     CmdShutdown}

\* QsoLogHandle::insert / flush / checkpoint / shutdown while the
\* writer task runs: the command is sent on the cmd channel; it waits there
\* while the writer is inside handle_command
SubmitLifecycle ==
    /\ Sent < MaxCmds
    /\ cmd_q = << >>
    /\ writer.pc \notin {"done", "closed"}
    /\ \E cmd \in LifecycleCommands : cmd_q' = Append(cmd_q, cmd)
    /\ UNCHANGED << store, debug_build, panicked, hist, projector, rt_phase, rt_target,
                    config, writer, persist_q, worker, durable_q, sink, log >>

\* a QsoLogHandle method called after the writer task returned from
\* Shutdown: cmd_tx.send fails and the caller gets ChannelClosed
SubmitAfterShutdown ==
    /\ Sent < MaxCmds + MaxLate
    /\ writer.pc = "done"
    /\ writer' = [writer EXCEPT !.handled = @ + 1]
    /\ log' = Append(log, LogEntry("reply", writer.handled + 1, 0, ReplyErr(ChannelClosed)))
    /\ UNCHANGED << store, debug_build, panicked, hist, projector, rt_phase, rt_target,
                    config, cmd_q, persist_q, worker, durable_q, sink >>

\* handle_command, the Flush, Checkpoint and Shutdown arms up to their
\* tx.send(msg).await; without a sink the arm answers at once, and Shutdown
\* returns true, which ends the writer task
HandleRequest(c, msg, out) ==
    /\ cmd_q' = Tail(cmd_q)
    /\ IF config.has_sink
       THEN /\ writer' = [writer EXCEPT !.pc = "req_send", !.handled = c.n,
                                        !.reply = << LogEntry("reply", c.n, 0,
                                                              << c.cmd.kind >>) >>,
                                        !.msg = << msg >>]
            /\ log' = Append(log, LogEntry("request", c.n, 0, << c.cmd.kind >>))
       ELSE /\ writer' = [writer EXCEPT
                             !.pc = IF c.cmd.kind = "Shutdown" THEN "done" ELSE "recv",
                             !.handled = c.n]
            /\ log' = log \o << LogEntry("request", c.n, 0, << c.cmd.kind >>),
                                LogEntry("reply", c.n, 0, out) >>
    /\ UNCHANGED << store, debug_build, panicked, hist, projector, rt_phase, rt_target,
                    config, persist_q, worker, durable_q, sink >>

\* handle_command, Command::Flush
HandleFlush ==
    /\ Receives("Flush")
    /\ HandleRequest(Received, MsgFlush, << "Ok", latest_op_seq(store) >>)

\* handle_command, Command::Checkpoint
HandleCheckpoint ==
    /\ Receives("Checkpoint")
    /\ HandleRequest(Received,
                     MsgCheckpoint(export_snapshot(store), latest_op_seq(store),
                                   config.compact_after_snapshot),
                     ReplyOk)

\* handle_command, Command::Shutdown
HandleShutdown ==
    /\ Receives("Shutdown")
    /\ HandleRequest(Received, MsgShutdown, ReplyOk)

\* the blocking tx.send of a Flush, Checkpoint or Shutdown message completes
\* once the persistence channel has room
WriterRequestSend ==
    /\ writer.pc = "req_send"
    /\ Len(persist_q) < config.persist_queue_bound
    /\ persist_q' = Append(persist_q, writer.msg[1])
    /\ writer' = [writer EXCEPT !.pc = "req_wait", !.msg = << >>]
    /\ UNCHANGED << store, debug_build, panicked, hist, projector, rt_phase, rt_target,
                    config, cmd_q, worker, durable_q, sink, log >>

\* what the arm sends to its caller for the worker's answer
RequestReply(kind, answer) ==
    CASE answer[1] = "Err" -> ReplyErr(RuntimePersist("sink"))
      [] kind = "Flush" -> << "Ok", answer[2] >>
      [] OTHER -> ReplyOk

\* the callers of the commands still on the cmd channel when the writer task
\* ends get ChannelClosed: their oneshot senders are dropped with the channel
Orphaned(n, q) ==
    [k \in 1..Len(q) |-> LogEntry("reply", n + k, 0, ReplyErr(ChannelClosed))]

\* handle_command, the Flush, Checkpoint and Shutdown arms after the await
\* of the worker's answer: resp.send(out); after Shutdown handle_command
\* returns true and the writer loop breaks
WriterRequestDone ==
    /\ writer.pc = "req_wait"
    /\ writer.cp_rx # << >>
    /\ LET kind == writer.reply[1].data[1]
           n == writer.reply[1].n
           reply == LogEntry("reply", n, 0, RequestReply(kind, writer.cp_rx))
       IN IF kind = "Shutdown"
          THEN /\ writer' = [writer EXCEPT !.pc = "done", !.handled = n + Len(cmd_q),
                                           !.reply = << >>, !.cp_rx = << >>]
               /\ cmd_q' = << >>
               /\ log' = log \o << reply >> \o Orphaned(n, cmd_q)
          ELSE /\ writer' = [writer EXCEPT !.pc = "recv", !.reply = << >>, !.cp_rx = << >>]
               /\ cmd_q' = cmd_q
               /\ log' = Append(log, reply)
    /\ UNCHANGED << store, debug_build, panicked, hist, projector, rt_phase, rt_target,
                    config, persist_q, worker, durable_q, sink >>

\* spawn_qsolog writer loop: every QsoLogHandle was dropped, cmd_rx.recv()
\* returns None and the loop breaks
WriterChannelClosed ==
    /\ writer.pc = "recv"
    /\ cmd_q = << >>
    /\ writer' = [writer EXCEPT !.pc = "closed"]
    /\ UNCHANGED << store, debug_build, panicked, hist, projector, rt_phase, rt_target,
                    config, cmd_q, persist_q, worker, durable_q, sink, log >>

\* spawn_persistence_worker, PersistMsg::Flush up to the await in flush_buf
WorkerRecvFlush ==
    /\ worker.pc = "recv"
    /\ persist_q # << >>
    /\ Head(persist_q).kind = "Flush"
    /\ worker' = [StartFlush(worker, TRUE) EXCEPT !.msg = << Head(persist_q) >>]
    /\ persist_q' = Tail(persist_q)
    /\ UNCHANGED << store, debug_build, panicked, hist, projector, rt_phase, rt_target,
                    config, cmd_q, writer, durable_q, sink, log >>

\* a Shutdown arm that answers and ends the task without flush_buf
WorkerRecvShutdown_unflushed ==
    /\ worker.pc = "recv"
    /\ persist_q # << >>
    /\ Head(persist_q).kind = "Shutdown"
    /\ worker' = [worker EXCEPT !.pc = "done"]
    /\ writer' = [writer EXCEPT !.cp_rx = << "Ok" >>]
    /\ persist_q' = Tail(persist_q)
    /\ UNCHANGED << store, debug_build, panicked, hist, projector, rt_phase, rt_target,
                    config, cmd_q, durable_q, sink, log >>

\* spawn_persistence_worker, PersistMsg::Shutdown up to the await in flush_buf
WorkerRecvShutdown ==
    /\ worker.pc = "recv"
    /\ persist_q # << >>
    /\ Head(persist_q).kind = "Shutdown"
    /\ worker' = [StartFlush(worker, TRUE) EXCEPT !.msg = << Head(persist_q) >>]
    /\ persist_q' = Tail(persist_q)
    /\ UNCHANGED << store, debug_build, panicked, hist, projector, rt_phase, rt_target,
                    config, cmd_q, writer, durable_q, sink, log >>

\* spawn_persistence_worker, rx.recv() returned None: the writer task ended
\* and dropped its sender, the channel is drained; up to the await in flush_buf
WorkerRecvClosed ==
    /\ worker.pc = "recv"
    /\ persist_q = << >>
    /\ writer.pc \in {"closed", "panicked"}
    /\ worker' = [StartFlush(worker, TRUE) EXCEPT !.msg = << RecvClosed >>]
    /\ UNCHANGED << store, debug_build, panicked, hist, projector, rt_phase, rt_target,
                    config, cmd_q, writer, persist_q, durable_q, sink, log >>

\* the configurations: a sink behind a queue of one slot that batches two
\* ops and compacts at a checkpoint; a sink that flushes on every insert and
\* checkpoints after every insert; no sink
LifecycleConfigs ==
    {RuntimeConfig(TRUE, "InMemory", FALSE, 2, 1, 0, TRUE),
     RuntimeConfig(TRUE, "Durable", TRUE, 1, 2, 1, FALSE),
     RuntimeConfigDefault}

InitLifecycle ==
    /\ store = new
    /\ debug_build = FALSE
    /\ panicked = FALSE
    /\ hist = << >>
    /\ projector = projector_new
    /\ rt_phase = "mutate"
    /\ rt_target = << >>
    /\ config \in LifecycleConfigs
    /\ cmd_q = << >>
    /\ writer = [pc |-> "recv", handled |-> 0, ops_since_snapshot |-> 0, reply |-> << >>,
                 msg |-> << >>, cp_rx |-> << >>]
    /\ persist_q = << >>
    /\ worker = [pc |-> "recv", buf |-> << >>, last_durable |-> 0, batch |-> << >>,
                 call_flush |-> FALSE, msg |-> << >>, seen |-> << >>]
    /\ durable_q = << >>
    /\ sink = [appends |-> << >>, journal |-> << >>, snapshots |-> << >>, faults |-> 0]
    /\ log = << >>

NextLifecycle ==
    \/ SubmitLifecycle \/ SubmitAfterShutdown
    \/ HandleInsert
    \/ HandleFlush \/ HandleCheckpoint \/ HandleShutdown
    \/ WriterRequestSend \/ WriterRequestDone \/ WriterChannelClosed
    \/ WriterDurable \/ WriterCheckpointSend \/ WriterCheckpointDone
    \/ WorkerRecvOp \/ WorkerRecvCheckpoint \/ WorkerRecvFlush \/ WorkerRecvShutdown
    \/ WorkerRecvClosed \/ WorkerTimer
    \/ WorkerSinkDone \/ WorkerSnapshot

SpecLifecycle == InitLifecycle /\ [][NextLifecycle]_vars

\* the writer task goes on with the command it received or is handling
WriterCommandStep ==
    \/ HandleInsert \/ HandleFlush \/ HandleCheckpoint \/ HandleShutdown
    \/ WriterRequestSend \/ WriterRequestDone
    \/ WriterCheckpointSend \/ WriterCheckpointDone

\* the worker task takes what its channel holds
WorkerRecvStep ==
    \/ WorkerRecvOp \/ WorkerRecvCheckpoint \/ WorkerRecvFlush \/ WorkerRecvShutdown
    \/ WorkerRecvClosed

\* every sink call returns
SinkReturns == WorkerSinkDone \/ WorkerSnapshot

\* the tokio scheduler runs both tasks, select! takes a ready branch, the
\* latency timer fires and the sink returns; what the clients do is left
\* open (no fairness for their calls nor for their dropping the handle)
SpecLifecycleFair ==
    /\ SpecLifecycle
    /\ WF_vars(WriterCommandStep)
    /\ WF_vars(WriterDurable)
    /\ WF_vars(WorkerRecvStep)
    /\ WF_vars(WorkerTimer)
    /\ WF_vars(SinkReturns)

(***************************************************************************)
(* Properties of the runtime.                                              *)
(***************************************************************************)
StrictlyIncreasing(seqs) == \A i, j \in DOMAIN seqs : i < j => seqs[i] < seqs[j]

\* the seqs of the ops the writer's store calls emitted, in call order
RECURSIVE MutatedUpTo(_)
MutatedUpTo(n) ==
    IF n = 0 THEN << >>
    ELSE MutatedUpTo(n - 1) \o (IF hist[n].tag = "Ok" THEN << hist[n].stored[1].seq >>
                                ELSE << >>)

Mutated == MutatedUpTo(Len(hist))

\* the seqs of the ops handed to sink.append_ops, batch after batch
RECURSIVE AppendedUpTo(_)
AppendedUpTo(n) ==
    IF n = 0 THEN << >>
    ELSE AppendedUpTo(n - 1) \o [i \in DOMAIN sink.appends[n].ops |-> sink.appends[n].ops[i].seq]

Appended == AppendedUpTo(Len(sink.appends))

\* seq a is seq b with some elements left out, both being strictly increasing
DroppedFrom(a, b) ==
    /\ StrictlyIncreasing(a)
    /\ StrictlyIncreasing(b)
    /\ {a[i] : i \in DOMAIN a} \subseteq {b[i] : i \in DOMAIN b}

\* C15: with a sink, the ops reach the persistence worker, and then
\* sink.append_ops batch after batch, in strictly increasing seq order, which
\* is the order in which the writer mutated the store
C15_OpsReachSinkInSeqOrder ==
    config.has_sink =>
        /\ DroppedFrom(worker.seen, Mutated)
        /\ DroppedFrom(Appended, worker.seen)

\* two batches were appended in a runtime whose channel held two ops at once
C15_Witness ==
    /\ config.has_sink
    /\ config.persist_queue_bound > 1
    /\ Len(sink.appends) >= 2
    /\ Len(Appended) >= 2
    /\ C15_OpsReachSinkInSeqOrder

\* the DurableUpTo events broadcast so far, in broadcast order
DurableEvents ==
    SelectSeq(log, LAMBDA e : e.kind = "event" /\ e.data[1] = "DurableUpTo")

\* C16: the op_seq values of the DurableUpTo events a runtime broadcasts never
\* decrease, with or without a sink and whatever seq append_ops returns
C16_DurableUpToMonotonic ==
    \A i, j \in DOMAIN DurableEvents :
        i < j => DurableEvents[i].data[2] <= DurableEvents[j].data[2]

\* a sink answered Ok with a seq below one it had answered before, and the
\* acknowledgements of both appends were broadcast
C16_Witness ==
    /\ config.has_sink
    /\ durable_q = << >>
    /\ Len(DurableEvents) >= 2
    /\ \E i, j \in DOMAIN sink.appends :
           /\ i < j
           /\ sink.appends[i].res[1] = "Ok"
           /\ sink.appends[j].res[1] = "Ok"
           /\ sink.appends[j].res[2] < sink.appends[i].res[2]
    /\ C16_DurableUpToMonotonic

\* the reply to command n reports a failed hand-over to the persistence queue
RejectedByQueue(e) ==
    /\ e.kind = "reply"
    /\ e.data[1] = "Err"
    /\ e.data[2][1] = "Persist"

\* C17: a mutation whose try-send to the full persistence queue failed leaves
\* the store as it was before the mutation (records, order, indices, id and
\* seq counters, undo and redo stacks, pending buffer)
C17_QueueFullRollsBack ==
    \A i \in DOMAIN log :
        RejectedByQueue(log[i]) => hist[log[i].n].s = StoreBefore(log[i].n)

\* a broadcast of Inserted, Updated, Voided, UndoApplied or RedoApplied
DomainEvent(e) == e.kind = "event" /\ e.data[1] # "DurableUpTo"

\* the domain event that answers a command of `kind`
EventNameOf(kind) ==
    CASE kind = "Insert" -> "Inserted"
      [] kind = "Patch" -> "Updated"
      [] kind = "Void" -> "Voided"
      [] kind = "Undo" -> "UndoApplied"
      [] kind = "Redo" -> "RedoApplied"

\* the domain event at position j of the writer's log comes after the store
\* mutation of its command and before any reply to it
AfterMutationBeforeReply(j) ==
    /\ \E i \in 1..(j - 1) :
           /\ log[i].kind = "mutate"
           /\ log[i].n = log[j].n
           /\ log[j].data[1] = EventNameOf(log[i].data[1])
    /\ \A k \in 1..j : ~(log[k].kind = "reply" /\ log[k].n = log[j].n)

\* the writer's log holds, before position i, the domain event of command n,
\* itself after the command's store mutation and before any reply to it
EventBetween(i, n) ==
    \E j \in 1..(i - 1) :
        /\ DomainEvent(log[j])
        /\ log[j].n = n
        /\ AfterMutationBeforeReply(j)

\* C18: every successful mutation command broadcasts its domain event after
\* the store mutation and before its reply, and the domain events of
\* successive commands are broadcast in the order the commands were handled
C18_EventAfterMutationBeforeReply ==
    /\ \A i \in DOMAIN log :
           (log[i].kind = "reply" /\ log[i].data = ReplyOk) => EventBetween(i, log[i].n)
    /\ \A j \in DOMAIN log : DomainEvent(log[j]) => AfterMutationBeforeReply(j)
    /\ \A i, j \in DOMAIN log :
           (i < j /\ DomainEvent(log[i]) /\ DomainEvent(log[j])) => log[i].n < log[j].n

\* an insert and then a patch of the inserted id were answered Ok, and
\* Inserted{id} was broadcast before Updated{id}
C18_Witness ==
    /\ \E i, j \in DOMAIN log :
           /\ i < j
           /\ log[i].kind = "event" /\ log[i].data = Inserted(1)
           /\ log[j].kind = "event" /\ log[j].data = Updated(1)
    /\ Cardinality({i \in DOMAIN log : log[i].kind = "reply" /\ log[i].data = ReplyOk}) >= 2
    /\ C18_EventAfterMutationBeforeReply

\* the seqs of the ops in the persistence channel
Queued == {persist_q[i].stored.seq : i \in {k \in DOMAIN persist_q : persist_q[k].kind = "Op"}}

\* C19: without a sink every successful mutation at once broadcasts
\* DurableUpTo with the seq of the op it just emitted and then its domain
\* event; with a sink the writer hands the op to the worker instead and
\* broadcasts no DurableUpTo at mutation time
C19_DurableAtMutationOnlyWithoutSink ==
    \A i \in DOMAIN log :
        /\ log[i].kind = "mutate" =>
               /\ i < Len(log)
               /\ IF config.has_sink
                  THEN \/ RejectedByQueue(log[i + 1])
                       \/ /\ log[i + 1].kind = "enqueue"
                          /\ log[i].seq \in Queued \cup {worker.seen[k] : k \in DOMAIN worker.seen}
                  ELSE /\ i + 1 < Len(log)
                       /\ log[i + 1].kind = "event"
                       /\ log[i + 1].n = log[i].n
                       /\ log[i + 1].data = DurableUpTo(hist[log[i].n].stored[1].seq)
                       /\ DomainEvent(log[i + 2])
                       /\ log[i + 2].n = log[i].n
        /\ (config.has_sink /\ log[i].kind = "event" /\ log[i].data[1] = "DurableUpTo")
               => log[i].n = 0

\* a runtime without a sink answered two mutations, the second with
\* DurableUpTo{2}
C19_Witness ==
    /\ ~config.has_sink
    /\ Len(DurableEvents) >= 2
    /\ \E i \in DOMAIN log : log[i].kind = "event" /\ log[i].data = DurableUpTo(2)
    /\ C19_DurableAtMutationOnlyWithoutSink

\* before position i of the writer's log, the worker's acknowledgement of a
\* durable seq >= s had reached the writer
AckedBefore(i, s) ==
    \E k \in 1..(i - 1) :
        /\ log[k].kind = "event"
        /\ log[k].n = 0
        /\ log[k].data[1] = "DurableUpTo"
        /\ log[k].data[2] >= s

\* C20: in Durable ack mode the Ok reply to a mutation whose op has seq s is
\* sent only after the worker acknowledged a durable seq >= s, its domain
\* event still being broadcast at mutation time
C20_DurableReplyAfterAck ==
    (config.has_sink /\ config.ack_mode = "Durable") =>
        \A i \in DOMAIN log :
            (log[i].kind = "reply" /\ log[i].data = ReplyOk) =>
                /\ AckedBefore(i, log[i].seq)
                /\ EventBetween(i, log[i].n)

\* QsoEvent::PersistenceError
PersistenceError(last_durable_seq) == << "PersistenceError", last_durable_seq >>

\* the durable seq the writer last heard of before position i of its log
RECURSIVE LastDurableBefore(_)
LastDurableBefore(i) ==
    IF i <= 1 THEN 0
    ELSE IF /\ log[i - 1].kind = "event"
            /\ log[i - 1].n = 0
            /\ log[i - 1].data[1] = "DurableUpTo"
         THEN log[i - 1].data[2]
         ELSE LastDurableBefore(i - 1)

\* C21: when a sink append fails and the worker's error report reaches the
\* writer, the runtime broadcasts PersistenceError carrying the last durable
\* seq (and is unhealthy from then on)
C21_AppendErrorBroadcast ==
    \A i \in DOMAIN log :
        log[i].kind = "durable_err" =>
            /\ i < Len(log)
            /\ log[i + 1].kind = "event"
            /\ log[i + 1].data = PersistenceError(LastDurableBefore(i))

\* QsoEvent::NotDurableWarning
NotDurableWarning(op_seq) == << "NotDurableWarning", op_seq >>

\* RuntimeError::PersistenceUnhealthy, as the callers of the runtime match it
PersistenceUnhealthy == << "PersistenceUnhealthy" >>

\* the worker's report the writer last took off the durable channel before
\* position i of its log was an error
RECURSIVE UnhealthyAt(_)
UnhealthyAt(i) ==
    IF i <= 1 THEN FALSE
    ELSE IF log[i - 1].kind = "durable_err" THEN TRUE
    ELSE IF /\ log[i - 1].kind = "event"
            /\ log[i - 1].n = 0
            /\ log[i - 1].data[1] = "DurableUpTo"
         THEN FALSE
         ELSE UnhealthyAt(i - 1)

\* C22: a mutation command handled while persistence is unhealthy is, in
\* InMemory mode, applied and answered with a NotDurableWarning{op_seq}
\* broadcast for its op, and in Durable mode rejected with
\* PersistenceUnhealthy, the store staying as it was
C22_UnhealthyByAckMode ==
    \A i \in DOMAIN log :
        (log[i].kind = "reply" /\ UnhealthyAt(i)) =>
            IF config.ack_mode = "InMemory"
            THEN hist[log[i].n].tag = "Ok" =>
                     \E j \in 1..(i - 1) :
                         /\ log[j].kind = "event"
                         /\ log[j].n = log[i].n
                         /\ log[j].data = NotDurableWarning(hist[log[i].n].stored[1].seq)
            ELSE /\ log[i].data = ReplyErr(PersistenceUnhealthy)
                 /\ hist[log[i].n].s = StoreBefore(log[i].n)

\* the command answered at position i of the writer's log was handled as
\* under unhealthy persistence: warned about, or rejected
HandledAsUnhealthy(i) ==
    \/ log[i].data = ReplyErr(PersistenceUnhealthy)
    \/ \E j \in 1..(i - 1) :
           /\ log[j].kind = "event"
           /\ log[j].n = log[i].n
           /\ log[j].data[1] = "NotDurableWarning"

OkRepliesUpTo(i) ==
    Cardinality({k \in 1..i : log[k].kind = "reply" /\ log[k].data = ReplyOk})

\* the writer asked the worker for a checkpoint while it handled command n
CheckpointedIn(n) == \E k \in DOMAIN log : log[k].kind = "checkpoint" /\ log[k].n = n

\* C24: with a sink and snapshot_every_ops = N > 0 the writer requests a
\* checkpoint after every N-th successful mutation of any kind and awaits it
\* before the reply; with N = 0 it never requests one
C24_CheckpointEveryNthMutation ==
    config.has_sink =>
        \A i \in DOMAIN log :
            /\ (log[i].kind = "reply" /\ log[i].data = ReplyOk) =>
                   (CheckpointedIn(log[i].n) <=>
                        /\ config.snapshot_every_ops > 0
                        /\ OkRepliesUpTo(i) % config.snapshot_every_ops = 0)
            /\ log[i].kind = "checkpoint" => config.snapshot_every_ops > 0

\* a step in which sink.append_ops returned an error
AppendFailed ==
    /\ Len(sink'.appends) > Len(sink.appends)
    /\ Last(sink'.appends).res[1] = "Err"

\* the store that holds every mutation the writer accepted before command n,
\* persisted or not: the emitted ops replayed onto an empty store
AcceptedBefore(n) == ReplayAll(new, Journal(n - 1)).s

\* the record of `id`, the last n records and the records of `call` in s
Serves(s, cmd, answer) ==
    /\ cmd.kind = "Get" => answer = get(s, cmd.id)
    /\ cmd.kind = "Recent" => answer = recent(s, cmd.n)
    /\ cmd.kind = "ByCall" => answer = by_call(s, cmd.call)

\* C27: a failed sink append never changes the in-memory store; Get, Recent
\* and ByCall still answer from the store's current records, the mutations
\* whose ops failed to persist included, and the writer keeps handling
\* commands.
C27_SinkFailureLeavesStoreServing ==
    /\ [][AppendFailed => /\ store' = store
                          /\ hist' = hist
                          /\ cmd_q' = cmd_q
                          /\ writer'.pc = writer.pc
                          /\ writer'.handled = writer.handled]_vars
    /\ [](\A i \in DOMAIN log :
              log[i].kind = "answer" =>
                  Serves(AcceptedBefore(log[i].n), log[i].data.cmd, log[i].data.answer))

\* after an append failed and nothing was ever journaled, a read command was
\* handled and answered with the record whose op was lost
C27_Witness ==
    /\ sink.journal = << >>
    /\ \E i \in DOMAIN log :
           /\ log[i].kind = "answer"
           /\ log[i].data.failed > 0
           /\ log[i].data.answer \notin {None, << >>}
           /\ \E a \in FailedAppends : sink.appends[a].ops # << >>

\* op o is in a batch the sink appended without error
SuccessfullyAppended(o) ==
    \E a \in DOMAIN sink.appends :
        /\ sink.appends[a].res[1] = "Ok"
        /\ o \in SeqToSet(sink.appends[a].ops)

\* op o is covered by a snapshot the sink wrote
CoveredBySnapshot(o) == \E k \in DOMAIN sink.snapshots : o.seq <= sink.snapshots[k].last_seq

\* C28: with a sink configured, whenever DurableUpTo{op_seq: s} is broadcast,
\* every StoredOp with seq <= s that the store emitted was successfully
\* appended to the sink or is covered by a written snapshot: none was dropped
\* by a failed batch or by a rejected enqueue.
C28_DurableUpToCoversEveryOp ==
    config.has_sink =>
        \A i \in DOMAIN log :
            (log[i].kind = "event" /\ log[i].data[1] = "DurableUpTo") =>
                \A o \in SeqToSet(Journal(Len(hist))) :
                    o.seq <= log[i].data[2] => SuccessfullyAppended(o) \/ CoveredBySnapshot(o)

(***************************************************************************)
(* SqliteOpSink (src/src/persist/sqlite.rs): the events and snapshots      *)
(* tables, used as the replay tests use them.                              *)
(***************************************************************************)
\* `ORDER BY seq ASC` over rows of distinct seq
RECURSIVE OrderBySeq(_)
OrderBySeq(rows) ==
    IF rows = << >> THEN << >>
    ELSE LET least == CHOOSE i \in DOMAIN rows : \A j \in DOMAIN rows : rows[i].seq <= rows[j].seq
         IN << rows[least] >>
            \o OrderBySeq(SubSeq(rows, 1, least - 1) \o SubSeq(rows, least + 1, Len(rows)))

\* load_events_after that also loads the row at `seq`
load_events_after_inclusive(journal, seq) ==
    OrderBySeq(SelectSeq(journal, LAMBDA o : o.seq >= seq))

\* SqliteOpSink::load_events_after: WHERE seq > ?1 ORDER BY seq ASC
load_events_after(journal, seq) ==
    OrderBySeq(SelectSeq(journal, LAMBDA o : o.seq > seq))

\* SqliteOpSink::load_latest_snapshot: ORDER BY id DESC LIMIT 1
load_latest_snapshot(snapshots) ==
    IF snapshots = << >> THEN None ELSE Some(snapshots[Len(snapshots)].snapshot)

\* SqliteOpSink::load_store
load_store(db) ==
    LET latest == load_latest_snapshot(db.snapshots)
        base == IF IsSome(latest) THEN from_snapshot(latest[1]) ELSE new
        start_seq == saturating_sub(export_snapshot(base).next_op_seq, 1)
    IN ReplayAll(base, load_events_after(db.journal, start_seq))

\* SqliteOpSink::append_ops: one row per op
append_ops(db, ops) == [db EXCEPT !.journal = @ \o ops]

\* SqliteOpSink::write_snapshot: one more row in snapshots
write_snapshot(db, snapshot, last_seq) ==
    [db EXCEPT !.snapshots = Append(@, [snapshot |-> snapshot, last_seq |-> last_seq])]

\* the count SqliteOpSink::compact_through returns: the rows its DELETE removed
compact_count(journal, cutoff) == Len(journal) - Len(compact_through(journal, cutoff))

\* what no persistence action touches
persist_idle == << debug_build, config, cmd_q, writer, persist_q, worker, durable_q >>

\* the database is open and the store is live
Persisting == rt_phase = "mutate" /\ UNCHANGED << persist_idle, rt_phase, rt_target >>

\* one more store call may be made
PsCanCall == Len(hist) < MaxPersistOps

\* the draft and the patch of the replay tests
PsDrafts == {DraftOf("A1AA", 1, QsoFlags(FALSE, FALSE))}

PsPatches == {PatchCall("C1CC")}

PsInsert == Persisting /\ PsCanCall /\ InsertWith(PsDrafts, NotFed) /\ UNCHANGED << sink, log >>

PsPatch ==
    /\ Persisting
    /\ PsCanCall
    /\ PatchWith(DOMAIN store.records, PsPatches, NotFed)
    /\ UNCHANGED << sink, log >>

PsVoid == Persisting /\ PsCanCall /\ VoidWith(DOMAIN store.records, NotFed) /\ UNCHANGED << sink, log >>

PsUndo == Persisting /\ PsCanCall /\ CanCall /\ UndoWith(NotFed) /\ UNCHANGED << sink, log >>

PsRedo == Persisting /\ PsCanCall /\ CanCall /\ RedoWith(NotFed) /\ UNCHANGED << sink, log >>

\* sink.append_ops(&store.drain_pending_ops())
PsAppend ==
    /\ Persisting
    /\ ~panicked
    /\ store.pending_ops # << >>
    /\ sink' = append_ops(sink, store.pending_ops)
    /\ store' = [store EXCEPT !.pending_ops = << >>]
    /\ UNCHANGED << panicked, hist, projector, log >>

\* sink.write_snapshot(&store.export_snapshot(), store.latest_op_seq())
PsSnapshot ==
    /\ Persisting
    /\ ~panicked
    /\ Len(sink.snapshots) < MaxSnapshots
    /\ sink' = write_snapshot(sink, export_snapshot(store), latest_op_seq(store))
    /\ UNCHANGED << store, panicked, hist, projector, log >>

\* sink.compact_through(last_seq) with the last_seq of a written snapshot;
\* log keeps the cutoff and the count of the last call
PsCompact ==
    /\ Persisting
    /\ ~panicked
    /\ \E k \in DOMAIN sink.snapshots :
           LET cutoff == sink.snapshots[k].last_seq
           IN /\ sink' = [sink EXCEPT !.journal = compact_through(@, cutoff)]
              /\ log' = << LogEntry("compact", 0, cutoff,
                                    << compact_count(sink.journal, cutoff) >>) >>
    /\ UNCHANGED << store, panicked, hist, projector >>

\* drop the sink, reopen the database and load_store(); rt_target keeps the
\* answer, the live store stays as it was
PsLoad ==
    /\ rt_phase = "mutate"
    /\ ~panicked
    /\ rt_phase' = "loaded"
    /\ rt_target' = << load_store(sink) >>
    /\ UNCHANGED << persist_idle, store, panicked, hist, projector, sink, log >>

InitPersist == Init /\ ~debug_build

NextPersist ==
    \/ PsInsert \/ PsPatch \/ PsVoid \/ PsUndo \/ PsRedo
    \/ PsAppend \/ PsSnapshot \/ PsCompact \/ PsLoad

SpecPersist == InitPersist /\ [][NextPersist]_vars

(***************************************************************************)
(* Properties of the SQLite sink.                                          *)
(***************************************************************************)
\* the newest snapshot row of the database, if any
NewestSnapshot == IF sink.snapshots = << >> THEN None ELSE Some(Last(sink.snapshots))

\* the seq up to which the newest snapshot covers the ops
CoveredSeq == IF IsSome(NewestSnapshot) THEN NewestSnapshot[1].snapshot.next_op_seq - 1 ELSE 0

\* the store load_store starts from
LoadBase == IF IsSome(NewestSnapshot) THEN from_snapshot(NewestSnapshot[1].snapshot) ELSE new

\* the journal holds every op the live store emitted after the newest snapshot
JournalHoldsTail ==
    \A o \in SeqToSet(Journal(Len(hist))) : o.seq > CoveredSeq => o \in SeqToSet(sink.journal)

Compacted == log' # log \/ Len(sink'.journal) < Len(sink.journal)

\* the step removed exactly the rows of seq <= cutoff and counted them
RemovedThrough(cutoff, count) ==
    /\ \A o \in SeqToSet(sink.journal) : o.seq > cutoff <=> o \in SeqToSet(sink'.journal)
    /\ sink'.journal = SelectSeq(sink.journal, LAMBDA o : o \in SeqToSet(sink'.journal))
    /\ count = Cardinality({i \in DOMAIN sink.journal : sink.journal[i].seq <= cutoff})
    /\ sink'.snapshots = sink.snapshots

\* the newest snapshot's last_seq was compacted and no later row is journaled
CompactedAtSnapshot ==
    /\ IsSome(NewestSnapshot)
    /\ log # << >>
    /\ Last(log).seq = NewestSnapshot[1].last_seq
    /\ sink.journal = << >>

\* C26: compact_through(c) removes exactly the journal rows with seq <= c,
\* returns their count and leaves the rows with seq > c as they were; a
\* store loaded after a snapshot written at last_seq and compact_through(last_seq)
\* has the order and the records of the store that was snapshotted.
C26_CompactThroughKeepsReplay ==
    /\ [][Compacted => RemovedThrough(Last(log').seq, Last(log').data[1])]_vars
    /\ [](rt_phase = "loaded" /\ CompactedAtSnapshot =>
              /\ rt_target[1].ok
              /\ export_snapshot(rt_target[1].s).order = NewestSnapshot[1].snapshot.order
              /\ export_snapshot(rt_target[1].s).records = NewestSnapshot[1].snapshot.records)

\* rows were removed at the newest snapshot's last_seq and the store loaded
\* afterwards holds the snapshotted records
C26_Witness ==
    /\ rt_phase = "loaded"
    /\ CompactedAtSnapshot
    /\ Last(log).data[1] > 1
    /\ NewestSnapshot[1].snapshot.order # << >>
    /\ rt_target[1].s.order = NewestSnapshot[1].snapshot.order

(***************************************************************************)
(* Mutation checkpoint and rollback (src/src/core/store.rs).               *)
(***************************************************************************)
\* Vec::truncate
Truncate(vec, len) == IF len >= Len(vec) THEN vec ELSE SubSeq(vec, 1, len)

\* QsoStore::mutation_checkpoint
mutation_checkpoint(s) ==
    [undo_len |-> Len(s.undo),
     redo_len |-> Len(s.redo),
     pending_ops_len |-> Len(s.pending_ops),
     next_op_seq |-> s.next_op_seq,
     next_qso_id |-> s.next_qso_id]

\* the result of a rollback step: the store and Ok or the error
RolledOk(s) == [s |-> s, tag |-> "Ok"]

\* rollback_insert: remove the record, its index entries and its place in
\* order, then renumber pos from that place on
rollback_insert(s, id) ==
    IF id \notin DOMAIN s.records
    THEN Err(s, MissingQso(id))
    ELSE LET s1 == remove_indices([s EXCEPT !.records = MapDel(s.records, id)], s.records[id])
         IN IF id \notin DOMAIN s1.pos
            THEN Err(s1, MissingQso(id))
            ELSE LET idx == s1.pos[id]
                     order == SubSeq(s1.order, 1, idx) \o SubSeq(s1.order, idx + 2, Len(s1.order))
                     pos == MapDel(s1.pos, id)
                 IN RolledOk([s1 EXCEPT
                                 !.order = order,
                                 !.pos = [q \in DOMAIN pos \cup {order[i] : i \in (idx + 1)..Len(order)} |->
                                             IF \E i \in (idx + 1)..Len(order) : order[i] = q
                                             THEN (CHOOSE i \in (idx + 1)..Len(order) :
                                                      /\ order[i] = q
                                                      /\ \A j \in (i + 1)..Len(order) : order[j] # q) - 1
                                             ELSE pos[q]]])

\* rollback_patch: apply prev to the record and repair the indices
rollback_patch(s, id, prev) ==
    IF id \notin DOMAIN s.records
    THEN Err(s, MissingQso(id))
    ELSE LET old_rec == s.records[id]
             rec == apply_to(prev, old_rec)
             s1 == RepairIndices(s, id, old_rec, rec)
         IN IF debug_build /\ ~debug_assert_indices_consistent(s1)
            THEN Panic(s1)
            ELSE RolledOk(s1)

\* rollback_void: the flag becomes the op's prev_is_void
rollback_void(s, id, prev_is_void) ==
    IF id \notin DOMAIN s.records
    THEN Err(s, MissingQso(id))
    ELSE RolledOk([s EXCEPT !.records[id].flags.is_void = prev_is_void])

\* QsoStore::rollback_mutation
rollback_mutation(s, checkpoint, stored) ==
    LET op == stored.op
        r == CASE op.kind = "Insert" -> rollback_insert(s, op.qso.id)
               [] op.kind = "Patch" -> rollback_patch(s, op.id, op.prev)
               [] op.kind = "Void" -> rollback_void(s, op.id, op.prev_is_void)
    IN IF r.tag # "Ok" THEN r
       ELSE RolledOk([r.s EXCEPT
                         !.next_op_seq = checkpoint.next_op_seq,
                         !.next_qso_id = checkpoint.next_qso_id,
                         !.undo = Truncate(@, checkpoint.undo_len),
                         !.redo = Truncate(@, checkpoint.redo_len),
                         !.pending_ops = Truncate(@, checkpoint.pending_ops_len)])

\* the store calls that build the state a mutation is rolled back in
RbInsert == InsertWith(RtDrafts, NotFed) /\ Mutating

RbPatch == PatchWith(DOMAIN store.records, RtPatches, NotFed) /\ Mutating

RbVoid == VoidWith(DOMAIN store.records, NotFed) /\ Mutating

RbUndo == CanCall /\ UndoWith(NotFed) /\ Mutating

RbRedo == CanCall /\ RedoWith(NotFed) /\ Mutating

\* mutation_checkpoint(), one mutation with result r and, when it succeeded,
\* rollback_mutation(checkpoint, stored_op); rt_target keeps the store at the
\* checkpoint, the mutation and the result of the rollback
RollBack(call, r) ==
    LET checkpoint == mutation_checkpoint(store)
        rolled == rollback_mutation(r.s, checkpoint, r.stored)
    IN /\ rt_phase = "mutate"
       /\ ~panicked
       /\ r.tag = "Ok"
       /\ rt_phase' = "rolled"
       /\ rt_target' = << [call |-> call, before |-> store, op |-> r.stored.op,
                           tag |-> rolled.tag] >>
       /\ store' = rolled.s
       /\ panicked' = (rolled.tag = "Panic")
       /\ UNCHANGED << debug_build, hist, projector, runtime_vars >>

RollBackInsert ==
    /\ InsertCount < MaxQsos
    /\ \E d \in RtDrafts, now \in Clock : RollBack("insert", insert(store, d, now))

RollBackPatch ==
    /\ store.records # EmptyMap
    /\ \E id \in DOMAIN store.records, p \in RtPatches, now \in Clock :
           RollBack("patch", patch(store, id, p, now))

RollBackVoid ==
    /\ store.records # EmptyMap
    /\ \E id \in DOMAIN store.records, now \in Clock : RollBack("void", void(store, id, now))

RollBackUndo ==
    /\ store.undo # << >>
    /\ \E now \in Clock : RollBack("undo", undo(store, now))

RollBackRedo ==
    /\ store.redo # << >>
    /\ \E now \in Clock : RollBack("redo", redo(store, now))

NextRollback ==
    \/ RbInsert \/ RbPatch \/ RbVoid \/ RbUndo \/ RbRedo
    \/ RollBackInsert \/ RollBackPatch \/ RollBackVoid \/ RollBackUndo \/ RollBackRedo

SpecRollback == Init /\ [][NextRollback]_vars

\* the fields of s that a caller can observe or that later calls depend on
Observable(s) ==
    [records |-> s.records, order |-> s.order, by_call |-> s.by_call,
     by_contest |-> s.by_contest, next_qso_id |-> s.next_qso_id,
     next_op_seq |-> s.next_op_seq, pending_ops |-> s.pending_ops,
     undo |-> s.undo, redo |-> s.redo]

\* C30: for any store state and any single successful mutation (insert,
\* patch, void, undo or redo) performed after mutation_checkpoint(),
\* rollback_mutation(checkpoint, stored_op) restores records, order, both
\* secondary indices, next_qso_id, next_op_seq, the pending buffer and the
\* contents of both the undo and the redo stack to their values at the
\* checkpoint.
C30_RollbackRestoresCheckpoint ==
    rt_phase = "rolled" =>
        /\ rt_target[1].tag = "Ok"
        /\ Observable(store) = Observable(rt_target[1].before)

(***************************************************************************)
(* Properties of the projector's dependency index and cache.               *)
(***************************************************************************)
\* every dependency key the projector knows of: the buckets of dep_index and
\* the deps of the cached entries
KnownKeys(p) == DOMAIN p.dep_index \cup UNION {p.applied[id].deps : id \in DOMAIN p.applied}

\* the ids any bucket or cached entry of the projector names
KnownIds(p) == DOMAIN p.applied \cup UNION {p.dep_index[k] : k \in DOMAIN p.dep_index}

\* C31: after every apply_stored_op call, id is a member of dep_index[k] if
\* and only if applied[id] exists and its deps contain k; no bucket of
\* dep_index refers to an id without a cached entry.
C31_DepIndexMirrorsApplied ==
    /\ \A k \in KnownKeys(projector), id \in KnownIds(projector) :
           (k \in DOMAIN projector.dep_index /\ id \in projector.dep_index[k])
               <=> (id \in DOMAIN projector.applied /\ k \in projector.applied[id].deps)
    /\ \A k \in DOMAIN projector.dep_index : projector.dep_index[k] \subseteq DOMAIN projector.applied

\* a call changed the deps of a cached entry, another call retracted a
\* record, and the index still holds a bucket
C31_Witness ==
    /\ \E i \in 1..Len(hist) :
       \E id \in DOMAIN hist[i].applied \cap DOMAIN AppliedBefore(i) :
           hist[i].applied[id].deps # AppliedBefore(i)[id].deps
    /\ \E i \in 1..Len(hist) : DOMAIN AppliedBefore(i) \ DOMAIN hist[i].applied # {}
    /\ projector.dep_index # EmptyMap

\* the ids of the store whose record is not void
NonVoidIds(s) == {id \in DOMAIN s.records : ~s.records[id].flags.is_void}

\* C32: with the projector fed every StoredOp right after it is emitted, the
\* key set of its applied map is the set of the store's ids whose record is
\* not void: a record that becomes void (by void, by a patch setting is_void
\* or by undoing its insert) loses its cached entry and gets one again when
\* it becomes non-void.
C32_CacheHoldsNonVoidRecords ==
    /\ DOMAIN projector.applied = NonVoidIds(store)
    /\ \A i \in 1..Len(hist) : DOMAIN hist[i].applied = NonVoidIds(hist[i].s)

\* a cached record became void and lost its entry, then became non-void and
\* has an entry again
C32_Witness ==
    \E i \in 1..Len(hist) :
    \E id \in DOMAIN AppliedBefore(i) :
        /\ id \notin DOMAIN hist[i].applied
        /\ hist[i].s.records[id].flags.is_void
        /\ id \in DOMAIN projector.applied
        /\ ~store.records[id].flags.is_void

\* the cached records of call i's projector that share no key with the keys
\* the reconciliation of call i went through
Unrelated(i) == {id \in DOMAIN AppliedBefore(i) : AppliedBefore(i)[id].deps \cap hist[i].keys = {}}

\* C33: during one apply_stored_op, a record whose cached dependency keys are
\* disjoint from the changed record's old keys and from the changed_keys of
\* every round is not among the recomputed ids (it is neither retracted nor
\* re-applied) and its cached entry is the same before and after the call.
C33_UnrelatedRecordsUntouched ==
    \A i \in 1..Len(hist) : Emitted(i) =>
        \A id \in Unrelated(i) :
            /\ id \notin hist[i].impacted
            /\ id \in DOMAIN hist[i].applied
            /\ hist[i].applied[id] = AppliedBefore(i)[id]

\* a patch re-evaluated the patched record, whose keys changed, and left a
\* cached record of other keys alone
C33_Witness ==
    \E i \in 1..Len(hist) :
        /\ Emitted(i) /\ hist[i].call = "patch"
        /\ \E id \in hist[i].impacted \cap DOMAIN AppliedBefore(i) \cap DOMAIN hist[i].applied :
               hist[i].applied[id].deps # AppliedBefore(i)[id].deps
        /\ \E id \in Unrelated(i) : AppliedBefore(i)[id].deps # {}

\* the ids the reconciliation of call i started from: the changed id and the
\* ids linked to its cached keys
StartImpacted(i) ==
    LET id == OpId(hist[i].stored[1].op)
        old == IF id \in DOMAIN AppliedBefore(i) THEN AppliedBefore(i)[id].deps ELSE {}
    IN {id} \cup {o \in DOMAIN AppliedBefore(i) : AppliedBefore(i)[o].deps \cap old # {}}

\* C40: the reconciliation loop of every fed op ends: impacted keeps the ids
\* it started from, holds only ids of the store, every round but the last
\* added an id, and the number of rounds is at least one and at most the
\* number of records of the store.
C40_ReconcileRoundsBounded ==
    \A i \in 1..Len(hist) : Emitted(i) =>
        /\ StartImpacted(i) \subseteq hist[i].impacted
        /\ hist[i].impacted \subseteq DOMAIN hist[i].s.records
        /\ hist[i].rounds >= 1
        /\ Cardinality(StartImpacted(i)) + hist[i].rounds - 1 <= Cardinality(hist[i].impacted)
        /\ hist[i].rounds <= Cardinality(DOMAIN hist[i].s.records)

\* a reconciliation that expanded impacted in its first round and stopped in
\* its second, with as many rounds as the store has records
C40_Witness ==
    \E i \in 1..Len(hist) :
        /\ Emitted(i) /\ hist[i].rounds = 2
        /\ hist[i].impacted # StartImpacted(i)
        /\ Cardinality(DOMAIN hist[i].s.records) = 2

(***************************************************************************)
(* Properties of the persistence worker and of the end of the runtime.     *)
(***************************************************************************)
\* the buffer and every batch stay within batch_max_ops
WithinBatchMax ==
    (config.has_sink /\ config.batch_max_ops >= 1) =>
        /\ worker.pc = "recv" => Len(worker.buf) < config.batch_max_ops
        /\ Len(worker.batch) <= config.batch_max_ops
        /\ \A i \in DOMAIN sink.appends : Len(sink.appends[i].ops) <= config.batch_max_ops

\* the worker takes an Insert op from the channel while flush_on_insert is set
RecvInsertFlushing ==
    /\ WorkerRecvOp
    /\ config.flush_on_insert
    /\ Head(persist_q).stored.op.kind = "Insert"

OpSeqs == 1..MaxCmds

\* append_ops returned Ok with the seq of the last op of a batch ending at
\* seq s, and the flush that followed did not fail
AppendedThrough(s) ==
    \E i \in DOMAIN sink.appends :
        /\ sink.appends[i].res = << "Ok", s >>
        /\ Last(sink.appends[i].ops).seq = s
        /\ sink.appends[i].flushed # "Err"

\* the writer broadcast DurableUpTo{op_seq >= s}
BroadcastThrough(s) ==
    \E k \in DOMAIN log :
        /\ log[k].kind = "event"
        /\ log[k].data[1] = "DurableUpTo"
        /\ log[k].data[2] >= s

\* C35: every successful append of a batch whose last op has seq s is
\* eventually followed by a broadcast of DurableUpTo{op_seq >= s} by the
\* writer, also when the batch was appended by the flush of a Flush,
\* Checkpoint or Shutdown message.
C35_AppendLeadsToDurableUpTo ==
    \A s \in OpSeqs : (config.has_sink /\ AppendedThrough(s)) ~> BroadcastThrough(s)

\* the seqs of the ops passed to append_ops so far, in the sink s
PassedToAppend(s) == UNION {{o.seq : o \in SeqToSet(s.appends[i].ops)} : i \in DOMAIN s.appends}

\* the seqs of the rows of a journal
RowSeqs(journal) == {o.seq : o \in SeqToSet(journal)}

\* the flush_buf whose return this step is did not fail
FlushSucceeded ==
    IF worker.batch = << >> THEN sink'.faults = sink.faults
    ELSE /\ Len(sink'.appends) = Len(sink.appends) + 1
         /\ Last(sink'.appends).res[1] = "Ok"
         /\ Last(sink'.appends).flushed # "Err"

\* a step that stores a snapshot
SnapshotWritten == Len(sink'.snapshots) > Len(sink.snapshots)

\* C36: on a Checkpoint message the worker first passes its whole buffer to
\* flush_buf; it reaches write_snapshot only from a flush that succeeded; rows
\* leave the journal only in a step that stored a snapshot, with compact set,
\* and only rows of seq <= that snapshot's last_seq; so every appended op
\* missing from the journal is under a stored snapshot, and when a snapshot
\* is written every op of seq <= last_seq the worker received has been
\* passed to append_ops.
C36_CheckpointOrder ==
    /\ [][WorkerRecvCheckpoint =>
              /\ worker'.pc = "sink"
              /\ worker'.batch = worker.buf
              /\ worker'.buf = << >>]_vars
    /\ [][(worker'.pc = "snapshot" /\ worker.pc # "snapshot") =>
              (worker.pc = "sink" /\ FlushSucceeded)]_vars
    /\ [][SnapshotWritten =>
              /\ worker.pc = "snapshot"
              /\ \A seq \in SeqToSet(worker.seen) :
                     seq <= Last(sink'.snapshots).last_seq => seq \in PassedToAppend(sink)]_vars
    /\ [][(RowSeqs(sink.journal) \ RowSeqs(sink'.journal) # {}) =>
              /\ SnapshotWritten
              /\ worker.msg[1].compact
              /\ \A seq \in RowSeqs(sink.journal) \ RowSeqs(sink'.journal) :
                     seq <= Last(sink'.snapshots).last_seq]_vars
    /\ [](\A i \in DOMAIN sink.appends :
              sink.appends[i].res[1] = "Ok" =>
                  \A o \in SeqToSet(sink.appends[i].ops) :
                      o.seq \notin RowSeqs(sink.journal) =>
                          \E k \in DOMAIN sink.snapshots : sink.snapshots[k].last_seq >= o.seq)

\* a checkpoint flushed a buffered op, wrote its snapshot and compacted the
\* row of that op away
C36_Witness ==
    /\ config.compact_after_snapshot
    /\ \E k \in DOMAIN sink.snapshots : sink.snapshots[k].last_seq >= 1
    /\ \E i \in DOMAIN sink.appends :
           /\ sink.appends[i].res[1] = "Ok"
           /\ sink.appends[i].flushed = "Ok"
           /\ \E o \in SeqToSet(sink.appends[i].ops) : o.seq \notin RowSeqs(sink.journal)

\* entry k of the log is the answer to a Shutdown command
ShutdownReplyAt(k) ==
    /\ log[k].kind = "reply"
    /\ \E j \in 1..(k - 1) :
           /\ log[j].kind = "request"
           /\ log[j].n = log[k].n
           /\ log[j].data = << "Shutdown" >>

\* shutdown() returned
ShutdownReturned == \E k \in DOMAIN log : ShutdownReplyAt(k)

\* the seqs of the ops the writer put on the persistence channel
Enqueued == {log[k].seq : k \in {j \in DOMAIN log : log[j].kind = "enqueue"}}

\* C37: when shutdown() has returned, every StoredOp the writer enqueued is
\* in a batch passed to append_ops, the persistence channel and the worker's
\* buffer are empty and the worker task has ended; after the answer to
\* Shutdown the writer answers nothing but ChannelClosed, no command waits
\* on the cmd channel, and no step changes the store.
C37_ShutdownDrainsAndCloses ==
    /\ [](ShutdownReturned =>
              /\ writer.pc = "done"
              /\ cmd_q = << >>
              /\ persist_q = << >>
              /\ worker.buf = << >> /\ worker.batch = << >>
              /\ config.has_sink => worker.pc = "done"
              /\ Enqueued \subseteq PassedToAppend(sink)
              /\ \A k \in DOMAIN log : ShutdownReplyAt(k) =>
                     \A j \in (k + 1)..Len(log) :
                         /\ log[j].kind = "reply"
                         /\ log[j].n > log[k].n
                         /\ log[j].data = ReplyErr(ChannelClosed))
    /\ [][ShutdownReturned => (store' = store /\ hist' = hist /\ sink' = sink)]_vars

\* shutdown() returned after its flush appended the op that was waiting in
\* the worker's buffer, and a later call got ChannelClosed
C37_Witness ==
    /\ ShutdownReturned
    /\ config.has_sink /\ ~config.flush_on_insert
    /\ \E i \in DOMAIN sink.appends :
           /\ sink.appends[i].flushed = "Ok"
           /\ {o.seq : o \in SeqToSet(sink.appends[i].ops)} \subseteq Enqueued
    /\ Last(log).data = ReplyErr(ChannelClosed)

\* the seqs of the ops of a sequence of StoredOp
SeqsOf(ops) == [k \in DOMAIN ops |-> ops[k].seq]

\* the seqs of the ops on the persistence channel
QueuedOps == SelectSeq(persist_q, LAMBDA m : m.kind = "Op")

\* the seqs the worker holds or handed to append_ops, in order: the batches
\* passed so far, the batch in flight, the buffer, the channel
RECURSIVE BatchesSeqs(_)
BatchesSeqs(appends) ==
    IF appends = << >> THEN << >>
    ELSE BatchesSeqs(SubSeq(appends, 1, Len(appends) - 1)) \o SeqsOf(Last(appends).ops)

\* the seqs of the batches passed to append_ops, one entry per op passed
PassedSeqs == BatchesSeqs(sink.appends)

\* where every enqueued op is: still on its way to the sink, or passed
OnTheWay ==
    (IF worker.pc = "sink" THEN SeqsOf(worker.batch) ELSE << >>)
        \o SeqsOf(worker.buf)
        \o [k \in DOMAIN QueuedOps |-> QueuedOps[k].stored.seq]

NoRepeat(seqs) == \A i, j \in DOMAIN seqs : seqs[i] = seqs[j] => i = j

\* C38: every StoredOp the writer enqueued is eventually in a batch passed
\* to append_ops (an op once passed stays passed and the ops are finitely
\* many, so: from some point on every enqueued op has been passed); no op is
\* passed twice, in one batch or in two, and an op is either passed or still
\* on its way (channel, buffer, batch in flight), never both and never lost.
C38_EnqueuedOpsAppendedOnce ==
    /\ <>[](Enqueued \subseteq PassedToAppend(sink))
    /\ [](NoRepeat(PassedSeqs \o OnTheWay))
    /\ [](SeqToSet(PassedSeqs \o OnTheWay) = Enqueued)

\* the writer's end of the channel was dropped; one op was appended by the
\* latency timer, another by the flush that follows the closing of the channel
C38_Witness ==
    /\ writer.pc = "closed" /\ worker.pc = "done"
    /\ \E i, j \in DOMAIN sink.appends :
           /\ sink.appends[i].flushed = "None"
           /\ sink.appends[j].flushed = "Ok"
    /\ Cardinality(Enqueued) = 2
    /\ Enqueued = PassedToAppend(sink)

\* the writer is inside an arm that waits for the worker: the blocking send
\* of a Flush, Checkpoint or Shutdown message or of an automatic checkpoint,
\* or the await of the answer
WriterWaiting == writer.pc \in {"req_send", "req_wait", "cp_send", "cp_wait"}

\* the worker is in its select, inside a sink call, or has ended: it has no
\* position in which it waits for the writer
WorkerPositions == {"recv", "sink", "snapshot", "done"}

\* the commands the writer has answered
Answered == {log[k].n : k \in {j \in DOMAIN log : log[j].kind = "reply"}}

\* C39: the writer and the worker do not deadlock: the worker is never in a
\* position where it waits for the writer and has not ended while the writer
\* waits for an answer it has not been sent; whenever the writer waits for
\* the worker (blocking send into the persistence channel, or awaiting the
\* answer, for Flush, Checkpoint, automatic checkpoint and Shutdown) it
\* eventually leaves the wait (the commands being finitely many: from some
\* point on it waits no more), and outside a wait every command it took has
\* been answered, the sink returning from every call.
C39_WriterAndWorkerNeverDeadlock ==
    /\ [](worker.pc \in WorkerPositions)
    /\ [](WriterWaiting /\ worker.pc = "done" => writer.cp_rx # << >>)
    /\ [](~WriterWaiting => \A n \in 1..writer.handled : n \in Answered)
    /\ <>[](~WriterWaiting)

\* behind a persistence channel of one slot the writer took a Flush,
\* Checkpoint or Shutdown command and every command it took is answered,
\* while an acknowledgement it had not consumed sits in the durability channel
C39_Witness ==
    /\ config.has_sink /\ config.persist_queue_bound = 1
    /\ durable_q # << >>
    /\ \E k \in DOMAIN log : log[k].kind = "request"
    /\ \A n \in 1..writer.handled : n \in Answered
    /\ writer.handled = MaxCmds
    /\ \E i \in DOMAIN sink.appends : sink.appends[i].flushed = "Ok"
====
